---- MODULE Spec2Model ----
(***************************************************************************)
(* A model of the Portage remap library: the FancyDriver phase machine     *)
(* (driver/fancydriver.h), and the MPI_Bounding_Boxes distributor          *)
(* (distributed/mpi_bounding_boxes.h).                                     *)
(*                                                                         *)
(* The module holds several specifications over one set of variables; a    *)
(* specification leaves the variables of the components it does not model  *)
(* at their idle value.                                                    *)
(***************************************************************************)
EXTENDS Integers, Sequences, FiniteSets, TLC

VARIABLES
  \* ---- FancyDriver (fancydriver.h)
  source_vars_to_remap_,        \* the constructor's variable list
  search_completed_,            \* std::map<Entity_kind,bool>
  mesh_intersection_completed_, \* std::map<Entity_kind,bool>
  source_weights_,              \* per kind: id of the intersect that made them (0 = empty)
  callerCandidates,             \* per kind: id of the search whose result the caller holds
  target_state_,                \* per variable: id of the weights its values came from
  nSearch, nIntersect, nInterp, \* per kind: how many times each phase body has run
  drvStatus,                    \* "ok" | "aborted" (assert) | "crashed" (null core driver)
  drvErr,                       \* the last message the driver wrote to std::cerr
  \* ---- MPI_Bounding_Boxes::distribute, the overlap test of one (sender, peer) pair
  sourceBoundingBox,            \* the sender's source box: per dimension <<min, max>>
  targetBoundingBox,            \* the peer's target box: per dimension <<min, max>>
  sendFlag,                     \* sendFlags[peer] on the sender
  boxPc,                        \* "boxes" (boxes known) | "flagged" (flag computed) | "idle"
  \* ---- Driver::run(distributed) on every rank: distribute's message passing
  sendFlags,                    \* sendFlags[s][r]: rank s sends its source data to rank r
  numGhost,                     \* per rank: number of ghost entities of its source partition
  multimat,                     \* nmats > 0: the problem has materials
  eagerSend,                    \* MPI_Send buffers the message (TRUE) or waits for the receive
  pc,                           \* per rank: [step, phase, peer], the position in the program
  collEntered,                  \* per rank: number of collectives entered
  recvCounts,                   \* per rank, count kind and peer: comm_info_t::recv*Counts
  posted,                       \* per rank: the receives posted, in order, not yet waited for
  chan,                         \* chan[s][r]: messages sent by s, not yet received by r
  received,                     \* per rank: what each completed round's receives got
  stepsDone                     \* per rank: the steps of distribute that have returned

drvVars == <<source_vars_to_remap_, search_completed_, mesh_intersection_completed_,
             source_weights_, callerCandidates, target_state_,
             nSearch, nIntersect, nInterp, drvStatus, drvErr>>

boxVars == <<sourceBoundingBox, targetBoundingBox, sendFlag, boxPc>>

\* the receiving side of distribute on one rank (mpi_bounding_boxes.h, 218-676)
VARIABLES commRank, toMe, part, partMats, readsAhead, rpc,
          cellInfo, cellToNodeInfo, num_mats_info, num_mat_cells_info,
          newCellGlobalIds, newCellToNodeList,
          all_material_ids, all_material_shapes, all_material_cells,
          cellUniqueRep, running_counter, material_indices,
          meshCells, meshCellToNode

distVars == <<sendFlags, numGhost, multimat, eagerSend, pc, collEntered, recvCounts,
              posted, chan, received, stepsDone>>

reconConfig == <<commRank, toMe, part, partMats, readsAhead>>
reconMesh == <<cellInfo, cellToNodeInfo, newCellGlobalIds, newCellToNodeList>>
reconMats == <<num_mats_info, num_mat_cells_info, all_material_ids, all_material_shapes,
               all_material_cells, cellUniqueRep, running_counter, material_indices>>
reconFlat == <<meshCells, meshCellToNode>>
reconVars == <<reconConfig, rpc, reconMesh, reconMats, reconFlat>>

\* the 3D cell-to-face list in distribute (mpi_bounding_boxes.h, 338-361)
VARIABLES sourceCellToFaceList, sourceCellToFaceDirs, cellToFaceInfo, newCellToFaceList, newCellToFaceDirs, facePc

faceVars == <<sourceCellToFaceList, sourceCellToFaceDirs, cellToFaceInfo, newCellToFaceList, newCellToFaceDirs, facePc>>

\* IntersectSweptFace<2, CELL>::operator() for one target cell (intersect_swept_faces.h, 280-496)
VARIABLES sweptEdges, stencil, swept_moments, sweptI, sweptPc, sweptErr

sweptVars == <<sweptEdges, stencil, swept_moments, sweptI, sweptPc, sweptErr>>

\* Driver::run(distributed) on one rank, cell variables (src/driver/driver.h, 353-548)
VARIABLES source_mesh_, source_state_, target_mesh_, target_field, distributed, source_mesh_flat, source_state_flat, candidates, source_cells_and_weights, interpolated, runPc

runVars == <<source_mesh_, source_state_, target_mesh_, target_field, distributed, source_mesh_flat, source_state_flat, candidates, source_cells_and_weights, interpolated, runPc>>

\* the same remap on 1 rank and on NRanks ranks, and their comparison (app/distributed_cmp/distributed_cmp.cc)
VARIABLES partOwner, srcVals, overlap, serial_map, distributed_map, tol, cmpStatus, eqPc

equivVars == <<partOwner, srcVals, overlap, serial_map, distributed_map, tol, cmpStatus, eqPc>>

\* Flat_State_Wrapper: the stored vectors, its three maps, the arguments an initialize still has to add, and the exception last thrown
VARIABLES state_, name_map_, entity_map_, entity_size_map_, fswPending, fswErr

fswVars == <<state_, name_map_, entity_map_, entity_size_map_, fswPending, fswErr>>

\* Mismatch repair of one interpolate call (SHIFTED_CONSERVATIVE): the values of the covered target cells of the part, their volume, the source mass, the two repair parameters, the loop counter and position, what the repair recorded and what interpolate handed back
VARIABLES fixVals, fixVol, fixSource, conservation_tol, max_fixup_iter, fixIter, fixPc, fixRecord, fixReturned

fixVars == <<fixVals, fixVol, fixSource, conservation_tol, max_fixup_iter, fixIter, fixPc, fixRecord, fixReturned>>

\* Part-by-part remap (driver/test/test_driver_part.cc): the source field, the intersection weights of every target cell, the two parts of the source and of the target cells, the target field, its copy after the part-by-part remap, the parts interpolated and the position in the test
VARIABLES original, partWeights, source_cells, target_cells, remapped, remapped_parts, partsDone, partPc

partVars == <<original, partWeights, source_cells, target_cells, remapped, remapped_parts, partsDone, partPc>>

vars == <<drvVars, boxVars, distVars, reconVars, faceVars, sweptVars, runVars, equivVars, fswVars, fixVars, partVars>>

(***************************************************************************)
(* Bounds                                                                  *)
(***************************************************************************)
MaxCalls == 2      \* how often each phase of one kind is called in a run
MantBits == 3      \* significant bits of the model's binary floating point (double: 53)
NRanks == 2        \* commSize
MaxCells == 2      \* cells (owned and ghost) of one source partition
IntBits == 8       \* bits of an int (the build: 32)
MaxFaceEntries == 2 \* entries of one partition's cell-to-face list
MaxEdges == 2      \* edges of the cell a swept-face intersection is computed for
MaxTargets == 2    \* cells of the target mesh
MaxCand == 2       \* candidates a search returns for one target cell

(***************************************************************************)
(* FancyDriver                                                             *)
(***************************************************************************)
Kinds == {"CELL", "NODE"}

\* the fields of the source state and the entity kind each lives on
StateVars == {"density", "pressure", "velocity"}

get_entity(v) == IF v \in {"density", "pressure"} THEN "CELL" ELSE "NODE"

\* FancyDriver::FancyDriver: entity_kinds_ is the set of kinds of the listed variables
entity_kinds_ == {get_entity(v) : v \in source_vars_to_remap_}

DrvInit ==
  /\ source_vars_to_remap_ \in (SUBSET StateVars) \ {{}}
  /\ search_completed_ = [k \in Kinds |-> FALSE]
  /\ mesh_intersection_completed_ = [k \in Kinds |-> FALSE]
  /\ source_weights_ = [k \in Kinds |-> 0]
  /\ callerCandidates = [k \in Kinds |-> 0]
  /\ target_state_ = [v \in StateVars |-> 0]
  /\ nSearch = [k \in Kinds |-> 0]
  /\ nIntersect = [k \in Kinds |-> 0]
  /\ nInterp = [k \in Kinds |-> 0]
  /\ drvStatus = "ok"
  /\ drvErr = "none"

DrvIdle ==
  /\ source_vars_to_remap_ = {}
  /\ search_completed_ = [k \in Kinds |-> FALSE]
  /\ mesh_intersection_completed_ = [k \in Kinds |-> FALSE]
  /\ source_weights_ = [k \in Kinds |-> 0]
  /\ callerCandidates = [k \in Kinds |-> 0]
  /\ target_state_ = [v \in StateVars |-> 0]
  /\ nSearch = [k \in Kinds |-> 0]
  /\ nIntersect = [k \in Kinds |-> 0]
  /\ nInterp = [k \in Kinds |-> 0]
  /\ drvStatus = "idle"
  /\ drvErr = "none"

\* assert(search_completed_[ONWHAT]) of intersect_meshes
IntersectAssertMut(k) == TRUE
IntersectAssert(k) == search_completed_[k]

\* assert(mesh_intersection_completed_[ONWHAT]) of interpolate
InterpolateAssertMut(k) == TRUE
InterpolateAssert(k) == mesh_intersection_completed_[k]

\* FancyDriver::search<ONWHAT>: the flag is set, then the core driver of the kind
\* searches; a kind without a core driver is a null unique_ptr.
search(k) ==
  /\ drvStatus = "ok"
  /\ nSearch[k] < MaxCalls
  /\ search_completed_' = [search_completed_ EXCEPT ![k] = TRUE]
  /\ IF k \in entity_kinds_
       THEN /\ nSearch' = [nSearch EXCEPT ![k] = @ + 1]
            /\ callerCandidates' = [callerCandidates EXCEPT ![k] = nSearch[k] + 1]
            /\ UNCHANGED drvStatus
       ELSE /\ drvStatus' = "crashed"
            /\ UNCHANGED <<nSearch, callerCandidates>>
  /\ UNCHANGED <<source_vars_to_remap_, mesh_intersection_completed_, source_weights_,
                 target_state_, nIntersect, nInterp, drvErr>>

\* FancyDriver::intersect_meshes<ONWHAT>(candidates): returns the weights to the caller
intersect_meshes(k) ==
  /\ drvStatus = "ok"
  /\ nIntersect[k] < MaxCalls
  /\ IF ~IntersectAssert(k)
       THEN /\ drvStatus' = "aborted"
            /\ UNCHANGED <<mesh_intersection_completed_, nIntersect>>
       ELSE /\ mesh_intersection_completed_' =
                 [mesh_intersection_completed_ EXCEPT ![k] = TRUE]
            /\ IF k \in entity_kinds_
                 THEN /\ nIntersect' = [nIntersect EXCEPT ![k] = @ + 1]
                      /\ UNCHANGED drvStatus
                 ELSE /\ drvStatus' = "crashed"
                      /\ UNCHANGED nIntersect
  /\ UNCHANGED <<source_vars_to_remap_, search_completed_, source_weights_,
                 callerCandidates, target_state_, nSearch, nInterp, drvErr>>

\* FancyDriver::compute_interpolation_weights: for every kind of entity_kinds_,
\* search, then intersect_meshes, and the weights are cached in source_weights_
compute_interpolation_weights ==
  /\ drvStatus = "ok"
  /\ \A k \in entity_kinds_ : nSearch[k] < MaxCalls /\ nIntersect[k] < MaxCalls
  /\ search_completed_' =
       [k \in Kinds |-> IF k \in entity_kinds_ THEN TRUE ELSE search_completed_[k]]
  /\ mesh_intersection_completed_' =
       [k \in Kinds |-> IF k \in entity_kinds_ THEN TRUE
                        ELSE mesh_intersection_completed_[k]]
  /\ nSearch' = [k \in Kinds |-> IF k \in entity_kinds_ THEN nSearch[k] + 1 ELSE nSearch[k]]
  /\ nIntersect' =
       [k \in Kinds |-> IF k \in entity_kinds_ THEN nIntersect[k] + 1 ELSE nIntersect[k]]
  /\ callerCandidates' = callerCandidates
  /\ source_weights_' =
       [k \in Kinds |-> IF k \in entity_kinds_ THEN nIntersect[k] + 1
                        ELSE source_weights_[k]]
  /\ UNCHANGED <<source_vars_to_remap_, target_state_, nInterp, drvStatus, drvErr>>

\* the weights interpolate hands to the core driver (lines 565 and 590)
WeightsUsedMut(k) == 0
WeightsUsed(k) == source_weights_[k]

\* the target state after the early return of lines 538-543
NotListedTargetStateMut(v, k) == [target_state_ EXCEPT ![v] = source_weights_[k]]
NotListedTargetState(v, k) == target_state_

\* FancyDriver::interpolate<T, ONWHAT, Interpolate>(srcvarname, ...)
interpolate(v, k) ==
  /\ drvStatus = "ok"
  /\ nInterp[k] < MaxCalls
  /\ IF get_entity(v) # k \/ ~InterpolateAssert(k)
       THEN /\ drvStatus' = "aborted"
            /\ UNCHANGED <<target_state_, nInterp, drvErr>>
       ELSE IF v \notin source_vars_to_remap_
         THEN /\ drvErr' = "Cannot remap source variable"
              /\ target_state_' = NotListedTargetState(v, k)
              /\ UNCHANGED <<nInterp, drvStatus>>
         ELSE /\ target_state_' = [target_state_ EXCEPT ![v] = WeightsUsed(k)]
              /\ nInterp' = [nInterp EXCEPT ![k] = @ + 1]
              /\ UNCHANGED <<drvStatus, drvErr>>
  /\ UNCHANGED <<source_vars_to_remap_, search_completed_, mesh_intersection_completed_,
                 source_weights_, callerCandidates, nSearch, nIntersect>>


(***************************************************************************)
(* Floating point.  A real x is held as the integer x * Scale, where       *)
(* Scale = 2^MantBits, so that machine epsilon 2^-(MantBits-1) is 2 units  *)
(* and every sum the overlap test forms is an integer before rounding.     *)
(* fl rounds to MantBits significant bits, ties to even, as IEEE 754       *)
(* arithmetic does on every + and - of doubles.                            *)
(***************************************************************************)
RECURSIVE Pow2(_)
Pow2(n) == IF n = 0 THEN 1 ELSE 2 * Pow2(n - 1)

Scale == Pow2(MantBits)

RECURSIVE Log2(_)
Log2(x) == IF x < 2 THEN 0 ELSE 1 + Log2(x \div 2)

flPos(x) ==
  IF x < Scale THEN x
  ELSE LET q   == Pow2(Log2(x) - MantBits + 1)
           lo  == (x \div q) * q
           rem == x - lo
       IN  IF 2 * rem < q THEN lo
           ELSE IF 2 * rem > q THEN lo + q
           ELSE IF (x \div q) % 2 = 0 THEN lo ELSE lo + q

fl(x) == IF x < 0 THEN -flPos(-x) ELSE flPos(x)

\* std::numeric_limits<double>::epsilon() and ::max()
epsilon == 2
DBL_MAX == Pow2(6) * Scale

(***************************************************************************)
(* MPI_Bounding_Boxes::distribute, lines 189-216: the overlap test         *)
(***************************************************************************)
Dims == {1, 2}

\* node coordinates of the meshes, as reals
MeshCoords == {1, 2, 4, 8, 16, 32}

\* the bounding box of a set of owned cells (lines 87-173): min < max in every
\* dimension; with no owned cell, (max double, -max double)
Intervals == {<<a * Scale, b * Scale>> : a, b \in MeshCoords}
EmptyInterval == <<DBL_MAX, -DBL_MAX>>
BoundingBoxes ==
  [Dims -> {i \in Intervals : i[1] < i[2]}] \cup {[k \in Dims |-> EmptyInterval]}

boxOffset == fl(2 * epsilon)

\* lines 192-197 and 204-213: one dimension of the test
sendThisDim(src, tgt) ==
  LET min2 == fl(src[1] + boxOffset)
      max2 == fl(src[2] - boxOffset)
      min1 == fl(tgt[1] + boxOffset)
      max1 == fl(tgt[2] - boxOffset)
  IN  \/ (min1 <= min2 /\ min2 <= max1)
      \/ (min2 <= min1 /\ min1 <= max2)

sendThis(src, tgt) == \A k \in Dims : sendThisDim(src[k], tgt[k])

BoxInit ==
  /\ sourceBoundingBox \in BoundingBoxes
  /\ targetBoundingBox \in BoundingBoxes
  /\ sendFlag = FALSE
  /\ boxPc = "boxes"

BoxIdle ==
  /\ sourceBoundingBox = [k \in Dims |-> EmptyInterval]
  /\ targetBoundingBox = [k \in Dims |-> EmptyInterval]
  /\ sendFlag = FALSE
  /\ boxPc = "idle"

\* lines 201-216 for one peer
SetSendFlag ==
  /\ boxPc = "boxes"
  /\ sendFlag' = sendThis(sourceBoundingBox, targetBoundingBox)
  /\ boxPc' = "flagged"
  /\ UNCHANGED <<sourceBoundingBox, targetBoundingBox>>

(***************************************************************************)
(* Driver::run(distributed = true) on each of NRanks ranks: distribute     *)
(* (mpi_bounding_boxes.h), then search.  One entity category stands for    *)
(* the mesh arrays, one for the material tables, one for a state field.    *)
(***************************************************************************)
Ranks == 0 .. NRanks - 1

\* the program of one rank, in the order of distribute and Driver::run:
\*   setInfo (MPI_Alltoall), moveField of the mesh arrays (owned round, ghost
\*   round), the material block (setInfo, moveData, the inline index fix),
\*   moveField of the field, fixListIndices, and, after distribute returns, search
ProgramMut(mm) ==
  <<[op |-> "coll",  name |-> "sizes",     kind |-> "none"],
    [op |-> "round", name |-> "mesh",      kind |-> "owned"],
    [op |-> "round", name |-> "mesh",      kind |-> "ghost"],
    [op |-> "local", name |-> "search",    kind |-> "none"],
    [op |-> "round", name |-> "field",     kind |-> "owned"],
    [op |-> "round", name |-> "field",     kind |-> "ghost"],
    [op |-> "local", name |-> "repair",    kind |-> "none"]>>
Program(mm) ==
  <<[op |-> "coll",  name |-> "sizes",     kind |-> "none"],
    [op |-> "round", name |-> "mesh",      kind |-> "owned"],
    [op |-> "round", name |-> "mesh",      kind |-> "ghost"]>>
  \o (IF mm THEN
  <<[op |-> "coll",  name |-> "matsizes",  kind |-> "none"],
    [op |-> "round", name |-> "mat",       kind |-> "mat"],
    [op |-> "local", name |-> "reconcile", kind |-> "none"]>>
      ELSE <<>>) \o
  <<[op |-> "round", name |-> "field",     kind |-> "owned"],
    [op |-> "round", name |-> "field",     kind |-> "ghost"],
    [op |-> "local", name |-> "repair",    kind |-> "none"],
    [op |-> "local", name |-> "search",    kind |-> "none"]>>

CountKinds == {"owned", "ghost", "mat"}

\* comm_info_t::sourceNumOwned, sourceNum - sourceNumOwned, and nmats of rank s
sourceCount(s, kind) ==
  CASE kind = "owned" -> 1
    [] kind = "ghost" -> numGhost[s]
    [] kind = "mat"   -> 1

\* setInfo, lines 729-730 and 737-738 (moveField, line 775, for the ghosts)
sendCount(s, kind, p) == IF sendFlags[s][p] THEN sourceCount(s, kind) ELSE 0

\* moveData: the receives are posted (lines 823-843), then the blocking sends
\* are made (lines 853-860), then MPI_Waitall (lines 862-867)
RoundPhasesMut == <<"send", "post", "wait">>
RoundPhases == <<"post", "send", "wait">>

Done(r) == pc[r].step > Len(Program(multimat))
Step(r) == Program(multimat)[pc[r].step]
AtPc(r, op, phase) == ~Done(r) /\ Step(r).op = op /\ pc[r].phase = phase

\* the communicator the MPI calls of a step name: MPI_Alltoall (lines 731-740),
\* MPI_Irecv (833-835) and MPI_Send (857-858); the constructor (line 44) takes none
CommunicatorOf(step) ==
  IF step.op \in {"coll", "round"} THEN "MPI_COMM_WORLD" ELSE "none"

\* the next peer, from i on, that rank r sends to in a round of this kind (NRanks: none)
RECURSIVE NextPeerMut(_, _, _)
NextPeerMut(r, kind, i) ==
  IF i >= NRanks THEN NRanks
  ELSE IF i # r /\ sendFlags[r][i] THEN i
  ELSE NextPeerMut(r, kind, i + 1)
RECURSIVE NextPeer(_, _, _)
NextPeer(r, kind, i) ==
  IF i >= NRanks THEN NRanks
  ELSE IF i # r /\ sendCount(r, kind, i) > 0 THEN i
  ELSE NextPeer(r, kind, i + 1)

\* the phase of a round at position i of RoundPhases; a send loop without a
\* peer to send to is passed over
RECURSIVE PhaseFrom(_, _, _)
PhaseFrom(r, kind, i) ==
  IF RoundPhases[i] = "send" /\ NextPeer(r, kind, 0) = NRanks
    THEN PhaseFrom(r, kind, i + 1)
    ELSE RoundPhases[i]

PhaseAfter(r, kind, ph) ==
  PhaseFrom(r, kind, 1 + CHOOSE i \in 1 .. 2 : RoundPhases[i] = ph)

FirstPhase(r, i) ==
  LET prog == Program(multimat)
  IN  IF i > Len(prog) THEN "end"
      ELSE IF prog[i].op = "round" THEN PhaseFrom(r, prog[i].kind, 1)
      ELSE "begin"

FirstPeer(r, i) ==
  LET prog == Program(multimat)
  IN  IF i <= Len(prog) /\ prog[i].op = "round" THEN NextPeer(r, prog[i].kind, 0) ELSE 0

Advance(r) ==
  pc' = [pc EXCEPT ![r] = [step |-> pc[r].step + 1,
                           phase |-> FirstPhase(r, pc[r].step + 1),
                           peer |-> FirstPeer(r, pc[r].step + 1)]]

\* index of the first receive of the list that is from s and not matched (0: none)
RECURSIVE FirstUnmatched(_, _, _)
FirstUnmatched(list, s, i) ==
  IF i > Len(list) THEN 0
  ELSE IF list[i].src = s /\ ~list[i].matched THEN i
  ELSE FirstUnmatched(list, s, i + 1)

DistInit ==
  /\ sendFlags \in [Ranks -> [Ranks -> BOOLEAN]]
  /\ numGhost \in [Ranks -> {0, 1}]
  /\ multimat \in BOOLEAN
  /\ eagerSend \in BOOLEAN
  /\ pc = [r \in Ranks |-> [step |-> 1, phase |-> "begin", peer |-> 0]]
  /\ collEntered = [r \in Ranks |-> 0]
  /\ recvCounts = [r \in Ranks |-> [k \in CountKinds |-> [p \in Ranks |-> 0]]]
  /\ posted = [r \in Ranks |-> <<>>]
  /\ chan = [s \in Ranks |-> [r \in Ranks |-> <<>>]]
  /\ received = [r \in Ranks |-> {}]
  /\ stepsDone = [r \in Ranks |-> {}]

DistIdle ==
  /\ sendFlags = [s \in Ranks |-> [r \in Ranks |-> FALSE]]
  /\ numGhost = [r \in Ranks |-> 0]
  /\ multimat = FALSE
  /\ eagerSend = FALSE
  /\ pc = [r \in Ranks |-> [step |-> 0, phase |-> "idle", peer |-> 0]]
  /\ collEntered = [r \in Ranks |-> 0]
  /\ recvCounts = [r \in Ranks |-> [k \in CountKinds |-> [p \in Ranks |-> 0]]]
  /\ posted = [r \in Ranks |-> <<>>]
  /\ chan = [s \in Ranks |-> [r \in Ranks |-> <<>>]]
  /\ received = [r \in Ranks |-> {}]
  /\ stepsDone = [r \in Ranks |-> {}]

DistConfig == <<sendFlags, numGhost, multimat, eagerSend>>

\* setInfo: the rank enters MPI_Alltoall
EnterAlltoall(r) ==
  /\ AtPc(r, "coll", "begin")
  /\ collEntered' = [collEntered EXCEPT ![r] = @ + 1]
  /\ pc' = [pc EXCEPT ![r].phase = "collwait"]
  /\ UNCHANGED <<DistConfig, recvCounts, posted, chan, received, stepsDone>>

\* setInfo: MPI_Alltoall returns once every rank has entered it; the rank then
\* holds the counts the others will send it (lines 731-746)
LeaveAlltoall(r) ==
  /\ AtPc(r, "coll", "collwait")
  /\ \A q \in Ranks : collEntered[q] >= collEntered[r]
  /\ recvCounts' = [recvCounts EXCEPT ![r] =
       IF Step(r).name = "sizes"
         THEN [k \in CountKinds |->
                 IF k = "mat" THEN @[k] ELSE [p \in Ranks |-> sendCount(p, k, r)]]
         ELSE [@ EXCEPT !["mat"] = [p \in Ranks |-> sendCount(p, "mat", r)]]]
  /\ stepsDone' = [stepsDone EXCEPT ![r] = @ \cup {Step(r).name}]
  /\ Advance(r)
  /\ UNCHANGED <<DistConfig, collEntered, posted, chan, received>>

\* the receives moveData posts (lines 828-843), each matched at once with the
\* oldest message of its peer that has already arrived
NewReceives(r, kind) ==
  LET RECURSIVE Build(_)
      Build(i) ==
        IF i >= NRanks THEN <<>>
        ELSE IF i # r /\ recvCounts[r][kind][i] > 0
          THEN <<[src |-> i, want |-> <<Step(r).name, kind, recvCounts[r][kind][i]>>,
                  matched |-> chan[i][r] # <<>>,
                  got |-> IF chan[i][r] # <<>> THEN Head(chan[i][r]) ELSE <<>>]>>
               \o Build(i + 1)
          ELSE Build(i + 1)
  IN Build(0)

\* moveData, lines 823-850: MPI_Irecv from every peer that sends, and the local copy
PostReceives(r) ==
  /\ AtPc(r, "round", "post")
  /\ posted' = [posted EXCEPT ![r] = NewReceives(r, Step(r).kind)]
  /\ chan' = [s \in Ranks |-> [q \in Ranks |->
                IF q = r /\ s # r /\ recvCounts[r][Step(r).kind][s] > 0 /\ chan[s][r] # <<>>
                  THEN Tail(chan[s][r]) ELSE chan[s][q]]]
  /\ pc' = [pc EXCEPT ![r].phase = PhaseAfter(r, Step(r).kind, "post")]
  /\ UNCHANGED <<DistConfig, collEntered, recvCounts, received, stepsDone>>

\* moveData, lines 853-860: one MPI_Send.  A standard-mode send returns when the
\* message is buffered (eagerSend) or when the matching receive has been posted.
Send(r) ==
  /\ AtPc(r, "round", "send")
  /\ LET p   == pc[r].peer
         i   == FirstUnmatched(posted[p], r, 1)
         msg == <<Step(r).name, Step(r).kind, sendCount(r, Step(r).kind, p)>>
         nxt == NextPeer(r, Step(r).kind, p + 1)
     IN  /\ eagerSend \/ i # 0
         /\ IF i # 0
              THEN /\ posted' = [posted EXCEPT ![p][i].matched = TRUE, ![p][i].got = msg]
                   /\ UNCHANGED chan
              ELSE /\ chan' = [chan EXCEPT ![r][p] = Append(@, msg)]
                   /\ UNCHANGED posted
         /\ pc' = [pc EXCEPT ![r] =
              [@ EXCEPT !.phase = IF nxt < NRanks THEN "send"
                                  ELSE PhaseAfter(r, Step(r).kind, "send"),
                        !.peer = nxt]]
  /\ UNCHANGED <<DistConfig, collEntered, recvCounts, received, stepsDone>>

\* moveData, lines 862-867: MPI_Waitall returns when every posted receive is complete
WaitAll(r) ==
  /\ AtPc(r, "round", "wait")
  /\ \A i \in 1 .. Len(posted[r]) : posted[r][i].matched
  /\ received' = [received EXCEPT ![r] =
       @ \cup {<<posted[r][i].src, posted[r][i].want, posted[r][i].got>> :
                 i \in 1 .. Len(posted[r])}]
  /\ posted' = [posted EXCEPT ![r] = <<>>]
  /\ stepsDone' = [stepsDone EXCEPT ![r] =
       IF Step(r).kind = "owned" THEN @ ELSE @ \cup {Step(r).name}]
  /\ Advance(r)
  /\ UNCHANGED <<DistConfig, collEntered, recvCounts, chan>>

\* a step without communication: the inline material index fix, fixListIndices
\* with finish_init, and the search that follows distribute in Driver::run
LocalStep(r) ==
  /\ AtPc(r, "local", "begin")
  /\ stepsDone' = [stepsDone EXCEPT ![r] = @ \cup {Step(r).name}]
  /\ Advance(r)
  /\ UNCHANGED <<DistConfig, collEntered, recvCounts, posted, chan, received>>

RankStep(r) ==
  \/ EnterAlltoall(r)
  \/ LeaveAlltoall(r)
  \/ PostReceives(r)
  \/ Send(r)
  \/ WaitAll(r)
  \/ LocalStep(r)

(***************************************************************************)
(* The receiving side of distribute on rank commRank.  Every rank s holds   *)
(* a partition of the source mesh: its owned cells, then its ghost cells,   *)
(* named by global id.  The partition of a rank that sends nothing to       *)
(* commRank plays no part and is the smallest one.  The mesh has one node   *)
(* per cell, with the cell's global id and ownership, and every cell lists  *)
(* two nodes: its own and the next one of the partition.  An array element  *)
(* is held with the rank it came from and the value it had there.           *)
(***************************************************************************)
GlobalIds == {1, 2, 3}
MaterialIds == {1, 2}

Range(q) == {q[i] : i \in 1 .. Len(q)}

RECURSIVE SumUpTo(_, _)
SumUpTo(f, n) == IF n <= 0 THEN 0 ELSE f[n - 1] + SumUpTo(f, n - 1)

\* the sequences without repetition of at most n elements of S
RECURSIVE SeqsNoRep(_, _)
SeqsNoRep(S, n) ==
  IF n <= 0 THEN {<<>>}
  ELSE {<<>>} \cup UNION {{<<x>> \o q : q \in SeqsNoRep(S \ {x}, n - 1)} : x \in S}

\* the owned cells of rank s when rank t owns sizes[t] cells: global ids only
\* name cells, so the owned cells are numbered rank after rank
OwnedCells(sizes, s) == [i \in 1 .. sizes[s] |-> SumUpTo(sizes, s) + i]

\* the material tables of a partition with n cells (sorted ids, each with its
\* cells): one material in every cell, one material in the last cell, or two
MatChoices(n) ==
  LET all == [i \in 1 .. n |-> i - 1]
  IN  {<<[id |-> 1, cells |-> all]>>,
       <<[id |-> 1, cells |-> <<n - 1>>]>>,
       <<[id |-> 1, cells |-> <<0>>], [id |-> 2, cells |-> all]>>}

sourceNumOwnedCells(s) == Len(part[s].owned)
sourceNumCells(s) == Len(part[s].owned) + Len(part[s].ghost)
sourceCellGlobalIds(s) == part[s].owned \o part[s].ghost

\* get_cell_to_node_list: nodes j and j+1 (cyclically) for cell j
sourceCellToNodeList(s) ==
  LET n == sourceNumCells(s)
  IN  [p \in 1 .. 2 * n |-> IF p % 2 = 1 THEN (p - 1) \div 2 ELSE ((p \div 2) % n)]

\* get_material_ids, get_material_shapes, get_material_cells
RECURSIVE Flatten(_)
Flatten(ms) == IF ms = <<>> THEN <<>> ELSE Head(ms).cells \o Flatten(Tail(ms))
material_ids(s) == [i \in 1 .. Len(partMats[s]) |-> partMats[s][i].id]
material_shapes(s) == [i \in 1 .. Len(partMats[s]) |-> Len(partMats[s][i].cells)]
material_cells(s) == Flatten(partMats[s])

\* an element that left rank s with value v; Unset fills a resized vector
Elem(s, v) == [val |-> v, src |-> s, orig |-> v]
Elems(s, q) == [i \in 1 .. Len(q) |-> Elem(s, q[i])]
Unset == [val |-> 0, src |-> NRanks, orig |-> 0]
Resized(n) == [i \in 1 .. n |-> Unset]

NoInfo == [sourceNum |-> 0, sourceNumOwned |-> 0, newNum |-> 0, newNumOwned |-> 0,
           recvCounts |-> [i \in Ranks |-> 0], recvOwnedCounts |-> [i \in Ranks |-> 0]]

ReconInit ==
  /\ commRank \in Ranks
  /\ toMe \in [Ranks -> BOOLEAN]
  /\ \E sizes \in [Ranks -> 1 .. MaxCells] :
       /\ SumUpTo(sizes, NRanks) <= Cardinality(GlobalIds)
       /\ \A s \in Ranks : ~toMe[s] => sizes[s] = 1
       /\ \E ghosts \in [Ranks -> SeqsNoRep(GlobalIds, MaxCells - 1)] :
            /\ \A s \in Ranks :
                 /\ Len(ghosts[s]) <= MaxCells - sizes[s]
                 /\ Range(ghosts[s]) \subseteq
                      UNION {Range(OwnedCells(sizes, t)) : t \in Ranks \ {s}}
                 /\ ~toMe[s] => ghosts[s] = <<>>
            /\ part = [s \in Ranks |->
                         [owned |-> OwnedCells(sizes, s), ghost |-> ghosts[s]]]
  /\ partMats \in [Ranks -> UNION {MatChoices(n) : n \in 1 .. MaxCells} \cup {<<>>}]
  /\ \A s \in Ranks :
       /\ partMats[s] = <<>> <=> partMats[0] = <<>>
       /\ partMats[s] # <<>> => partMats[s] \in MatChoices(sourceNumCells(s))
       /\ ~toMe[s] /\ partMats[s] # <<>> => partMats[s] = <<[id |-> 1, cells |-> <<0>>]>>
  /\ readsAhead \in BOOLEAN
  /\ partMats[0] = <<>> => ~readsAhead
  /\ rpc = "setInfo"
  /\ cellInfo = NoInfo /\ cellToNodeInfo = NoInfo
  /\ num_mats_info = NoInfo /\ num_mat_cells_info = NoInfo
  /\ newCellGlobalIds = <<>> /\ newCellToNodeList = <<>>
  /\ all_material_ids = <<>> /\ all_material_shapes = <<>> /\ all_material_cells = <<>>
  /\ cellUniqueRep = <<>> /\ running_counter = 0
  /\ material_indices = [m \in MaterialIds |-> <<>>]
  /\ meshCells = <<>> /\ meshCellToNode = <<>>

ReconIdle ==
  /\ commRank = 0
  /\ toMe = [s \in Ranks |-> FALSE]
  /\ part = [s \in Ranks |-> [owned |-> <<>>, ghost |-> <<>>]]
  /\ partMats = [s \in Ranks |-> <<>>]
  /\ readsAhead = FALSE
  /\ rpc = "idle"
  /\ cellInfo = NoInfo /\ cellToNodeInfo = NoInfo
  /\ num_mats_info = NoInfo /\ num_mat_cells_info = NoInfo
  /\ newCellGlobalIds = <<>> /\ newCellToNodeList = <<>>
  /\ all_material_ids = <<>> /\ all_material_shapes = <<>> /\ all_material_cells = <<>>
  /\ cellUniqueRep = <<>> /\ running_counter = 0
  /\ material_indices = [m \in MaterialIds |-> <<>>]
  /\ meshCells = <<>> /\ meshCellToNode = <<>>

\* setInfo (lines 716-747): what this rank learns from the two MPI_Alltoall
\* calls when rank s has num entities, numOwned of them owned
setInfo(num, numOwned) ==
  LET rc == [i \in Ranks |-> IF toMe[i] THEN num[i] ELSE 0]
      ro == [i \in Ranks |-> IF toMe[i] THEN numOwned[i] ELSE 0]
  IN  [sourceNum |-> num[commRank], sourceNumOwned |-> numOwned[commRank],
       newNum |-> SumUpTo(rc, NRanks), newNumOwned |-> SumUpTo(ro, NRanks),
       recvCounts |-> rc, recvOwnedCounts |-> ro]

\* the elements of q written into newData from offset off (0-based) on
Place(newData, off, q) ==
  [p \in 1 .. Len(newData) |->
     IF off < p /\ p <= off + Len(q) THEN q[p - off] ELSE newData[p]]

\* moveData (lines 813-868), from peer i on: the receive buffer of peer i starts
\* at writeOffset; this rank's own data is copied to myOffset
RECURSIVE moveData(_, _, _, _, _)
moveData(i, writeOffset, curRecvCounts, sent, newData) ==
  IF i >= NRanks THEN newData
  ELSE moveData(i + 1, writeOffset + curRecvCounts[i], curRecvCounts, sent,
                IF i # commRank /\ curRecvCounts[i] > 0
                  THEN Place(newData, writeOffset, sent[i])
                ELSE IF i = commRank /\ curRecvCounts[commRank] > 0
                  THEN Place(newData, writeOffset, sent[commRank])
                ELSE newData)

\* sourceData[sourceStart, sourceEnd) of rank s
Slice(q, sourceStart, sourceEnd) == SubSeq(q, sourceStart + 1, sourceEnd)

\* moveField (lines 761-795): the newStart of its second round
ghostStartMut(info) == 0
ghostStart(info) == info.newNumOwned

\* moveField: a round for the owned entries, then a round for the ghosts;
\* data[s] is the array of rank s, with num[s] entries, numOwned[s] owned
moveField(info, data, num, numOwned, newData) ==
  LET recvGhostCounts == [i \in Ranks |-> info.recvCounts[i] - info.recvOwnedCounts[i]]
      ownedSent == [s \in Ranks |-> Slice(data[s], 0, numOwned[s])]
      ghostSent == [s \in Ranks |-> Slice(data[s], numOwned[s], num[s])]
      first == moveData(0, 0, info.recvOwnedCounts, ownedSent, newData)
  IN  moveData(0, ghostStart(info), recvGhostCounts, ghostSent, first)

\* the rank whose block holds position p (0-based) of an array laid out rank
\* after rank with counts[i] entries from rank i
RECURSIVE RankAt(_, _, _)
RankAt(counts, p, i) ==
  IF i >= NRanks - 1 \/ p < SumUpTo(counts, i + 1) THEN i
  ELSE RankAt(counts, p, i + 1)

\* fixListIndices (lines 871-918): the corrections of rank i
ownedOffsets(rangeInfo, i) == SumUpTo(rangeInfo.recvOwnedCounts, i)
ghostOffsets(rangeInfo, i) ==
  SumUpTo([j \in Ranks |-> rangeInfo.recvCounts[j] - rangeInfo.recvOwnedCounts[j]], i)
    + rangeInfo.newNumOwned - rangeInfo.recvOwnedCounts[i]

\* fixListIndices: the owned entries of the map, rank after rank, then the ghosts
fixListIndices(mapInfo, rangeInfo, newMap) ==
  LET ghostCounts == [j \in Ranks |-> mapInfo.recvCounts[j] - mapInfo.recvOwnedCounts[j]]
      fixed(p) ==
        LET i == IF p < mapInfo.newNumOwned
                   THEN RankAt(mapInfo.recvOwnedCounts, p, 0)
                   ELSE RankAt(ghostCounts, p - mapInfo.newNumOwned, 0)
            n == newMap[p + 1].val
        IN  n + (IF n < rangeInfo.recvOwnedCounts[i]
                   THEN ownedOffsets(rangeInfo, i) ELSE ghostOffsets(rangeInfo, i))
  IN  [p \in 1 .. Len(newMap) |-> [newMap[p] EXCEPT !.val = fixed(p - 1)]]

\* lines 476-487: the index of the first appearance of every global id
UniqueRepMut(ids, i, globalCellMap, rep) == [j \in 1 .. Len(ids) |-> j - 1]
RECURSIVE UniqueRep(_, _, _, _)
UniqueRep(ids, i, globalCellMap, rep) ==
  IF i >= Len(ids) THEN rep
  ELSE IF ids[i + 1] \notin DOMAIN globalCellMap
    THEN UniqueRep(ids, i + 1, globalCellMap @@ (ids[i + 1] :> i), Append(rep, i))
    ELSE UniqueRep(ids, i + 1, globalCellMap, Append(rep, globalCellMap[ids[i + 1]]))

Vals(q) == [i \in 1 .. Len(q) |-> q[i].val]

\* lines 535-552: these_material_cells.push_back for the cells of one material
AppendCellsMut(these_material_cells, cells) ==
  these_material_cells \o
    SelectSeq(cells, LAMBDA c : c \notin Range(these_material_cells))
AppendCells(these_material_cells, cells) == these_material_cells \o cells

\* lines 526-552: the ragged material -> cells structure
RECURSIVE Rebuild(_, _, _)
Rebuild(i, counter, indices) ==
  IF i > Len(all_material_ids) THEN indices
  ELSE LET mat_id     == all_material_ids[i].val
           nmat_cells == all_material_shapes[i].val
       IN  Rebuild(i + 1, counter + nmat_cells,
                   [indices EXCEPT ![mat_id] =
                      AppendCells(@, SubSeq(Vals(all_material_cells),
                                            counter + 1, counter + nmat_cells))])

nmats(s) == Len(partMats[s])
nodeInfo == cellInfo

\* lines 218-246: setInfo for the cells, the nodes and the cell-to-node list
ReconSetInfo ==
  /\ rpc = "setInfo"
  /\ cellInfo' = setInfo([s \in Ranks |-> sourceNumCells(s)],
                         [s \in Ranks |-> sourceNumOwnedCells(s)])
  /\ cellToNodeInfo' = setInfo([s \in Ranks |-> 2 * sourceNumCells(s)],
                               [s \in Ranks |-> 2 * sourceNumOwnedCells(s)])
  /\ rpc' = "moveMesh"
  /\ UNCHANGED <<reconConfig, newCellGlobalIds, newCellToNodeList, reconMats, reconFlat>>

\* lines 276-393: moveField for the cell-to-node list and the global ids
ReconMoveMesh ==
  /\ rpc = "moveMesh"
  /\ newCellToNodeList' =
       moveField(cellToNodeInfo,
                 [s \in Ranks |-> Elems(s, sourceCellToNodeList(s))],
                 [s \in Ranks |-> 2 * sourceNumCells(s)],
                 [s \in Ranks |-> 2 * sourceNumOwnedCells(s)],
                 Resized(cellToNodeInfo.newNum))
  /\ newCellGlobalIds' =
       moveField(cellInfo,
                 [s \in Ranks |-> Elems(s, sourceCellGlobalIds(s))],
                 [s \in Ranks |-> sourceNumCells(s)],
                 [s \in Ranks |-> sourceNumOwnedCells(s)],
                 Resized(cellInfo.newNum))
  /\ rpc' = IF nmats(commRank) > 0 THEN "moveMaterials" ELSE "fixListIndices"
  /\ UNCHANGED <<reconConfig, cellInfo, cellToNodeInfo, reconMats, reconFlat>>

\* lines 406-466: the material ids, shapes and cells, each in one moveData round
ReconMoveMaterials ==
  /\ rpc = "moveMaterials"
  /\ LET mats  == setInfo([s \in Ranks |-> nmats(s)], [s \in Ranks |-> nmats(s)])
         cells == setInfo([s \in Ranks |-> Len(material_cells(s))],
                          [s \in Ranks |-> Len(material_cells(s))])
     IN  /\ num_mats_info' = mats
         /\ num_mat_cells_info' = cells
         /\ all_material_ids' =
              moveData(0, 0, mats.recvCounts,
                       [s \in Ranks |-> Elems(s, material_ids(s))], Resized(mats.newNum))
         /\ all_material_shapes' =
              moveData(0, 0, mats.recvCounts,
                       [s \in Ranks |-> Elems(s, material_shapes(s))], Resized(mats.newNum))
         /\ all_material_cells' =
              moveData(0, 0, cells.recvCounts,
                       [s \in Ranks |-> Elems(s, material_cells(s))], Resized(cells.newNum))
  /\ rpc' = "uniqueRep"
  /\ UNCHANGED <<reconConfig, reconMesh, cellUniqueRep, running_counter,
                 material_indices, reconFlat>>

\* lines 476-501: cellUniqueRep, and the running counter set to the first entry
ReconUniqueRep ==
  /\ rpc = "uniqueRep"
  /\ cellUniqueRep' = UniqueRep(Vals(newCellGlobalIds), 0, <<>>, <<>>)
  /\ running_counter' = 0
  /\ rpc' = IF Len(all_material_cells) > 0 THEN "fixMaterialCells" ELSE "rebuild"
  /\ UNCHANGED <<reconConfig, reconMesh, num_mats_info, num_mat_cells_info,
                 all_material_ids, all_material_shapes, all_material_cells,
                 material_indices, reconFlat>>

\* what a read past the end of a vector can lead to: a value that is no cell
\* index, or one that is
Garbage == {-1, 0}

\* lines 498-501: offsets, the partial sums of cellInfo.recvCounts
offsets(rank) == SumUpTo(cellInfo.recvCounts, rank)

\* lines 507-524, one pass of the inner loop at running_counter = k:
\*     all_material_cells[k] += this_offset;
\*     all_material_cells[k++] = cellUniqueRep[all_material_cells[k]];
\* The second statement reads and increments running_counter without sequencing
\* (before C++17), so the index is read at k or, when the increment comes first
\* (readsAhead), at k+1; at the last k that is one past the end of the vector,
\* and the value found there is arbitrary, as is the outcome of indexing
\* cellUniqueRep with it.
ReconFixMaterialCell ==
  /\ rpc = "fixMaterialCells"
  /\ LET k      == running_counter
         n      == Len(all_material_cells)
         rank   == RankAt(num_mat_cells_info.recvCounts, k, 0)
         added  == [all_material_cells EXCEPT ![k + 1].val = @ + offsets(rank)]
         nextPc == IF k + 1 < n THEN "fixMaterialCells" ELSE "rebuild"
     IN  /\ k < n
         /\ \/ /\ ~readsAhead \/ k + 1 < n
               /\ LET idx == IF readsAhead THEN added[k + 2].val ELSE added[k + 1].val
                  IN  all_material_cells' = [added EXCEPT ![k + 1].val = cellUniqueRep[idx + 1]]
               /\ rpc' = nextPc
            \/ /\ readsAhead /\ k + 1 = n
               /\ \E garbage \in Garbage :
                    all_material_cells' = [added EXCEPT ![k + 1].val = garbage]
               /\ rpc' = nextPc
            \/ /\ readsAhead /\ k + 1 = n
               /\ all_material_cells' = added
               /\ rpc' = "crashed"
         /\ running_counter' = k + 1
  /\ UNCHANGED <<reconConfig, reconMesh, num_mats_info, num_mat_cells_info,
                 all_material_ids, all_material_shapes, cellUniqueRep,
                 material_indices, reconFlat>>

\* lines 526-566: material_indices, handed to the state by mat_add_cells
ReconRebuild ==
  /\ rpc = "rebuild"
  /\ material_indices' = Rebuild(1, 0, [m \in MaterialIds |-> <<>>])
  /\ running_counter' = Len(all_material_cells)
  /\ rpc' = "fixListIndices"
  /\ UNCHANGED <<reconConfig, reconMesh, num_mats_info, num_mat_cells_info,
                 all_material_ids, all_material_shapes, all_material_cells,
                 cellUniqueRep, reconFlat>>

\* lines 646-657: the received arrays become the source mesh; fixListIndices
ReconFixListIndices ==
  /\ rpc = "fixListIndices"
  /\ newCellToNodeList' = fixListIndices(cellToNodeInfo, nodeInfo, newCellToNodeList)
  /\ rpc' = "finish_init"
  /\ UNCHANGED <<reconConfig, cellInfo, cellToNodeInfo, newCellGlobalIds,
                 reconMats, reconFlat>>

\* the number of first appearances among the first n entries
RECURSIVE NumKept(_, _)
NumKept(rep, n) ==
  IF n = 0 THEN 0 ELSE NumKept(rep, n - 1) + (IF rep[n] = n - 1 THEN 1 ELSE 0)

\* finish_init of the flat mesh wrapper (called at line 676): entities of one global id
\* become one entity, the first to appear, and the adjacency lists are rewritten
\* through the map global id -> new local index
finish_init(ids, list) ==
  LET rep == UniqueRep(ids, 0, <<>>, <<>>)
      first == SelectSeq([i \in 1 .. Len(ids) |-> i], LAMBDA i : rep[i] = i - 1)
  IN  [cells |-> [j \in 1 .. Len(first) |-> ids[first[j]]],
       list  |-> [p \in 1 .. Len(list) |->
                    [list[p] EXCEPT !.val =
                       IF @ \in 0 .. Len(ids) - 1
                         THEN NumKept(rep, rep[@ + 1] + 1) - 1 ELSE @]]]

ReconFinishInit ==
  /\ rpc = "finish_init"
  /\ LET flat == finish_init(Vals(newCellGlobalIds), newCellToNodeList)
     IN  /\ meshCells' = flat.cells
         /\ meshCellToNode' = flat.list
  /\ rpc' = "done"
  /\ UNCHANGED <<reconConfig, reconMesh, reconMats>>

(***************************************************************************)
(* The 3D cell-to-face list (mpi_bounding_boxes.h, lines 338-361).  Every   *)
(* rank packs the face id and the direction of each entry of its list into *)
(* one int, in place; moveField ships the ints; the receiver unpacks them.  *)
(* An int has IntBits bits, two's complement.  A list holds the entries of  *)
(* the rank's owned cells, then those of its ghost cells.  An element keeps *)
(* the face id (orig) and direction (dir) it had before packing.            *)
(***************************************************************************)
INT_MAX == Pow2(IntBits - 1) - 1

\* the value of type int that a result is converted to
ToInt(x) == ((x + Pow2(IntBits - 1)) % Pow2(IntBits)) - Pow2(IntBits - 1)

\* f << 1, fd >> 1 (sign-extending), x | dir and fd & 1 for dir in {0, 1}
ShiftLeft1(f) == ToInt(2 * f)
ShiftRight1(fd) == IF fd >= 0 THEN fd \div 2 ELSE -((1 - fd) \div 2)
BitOr1(x, dir) == IF x % 2 = 0 THEN x + dir ELSE x
BitAnd1(fd) == fd % 2

\* line 347 and lines 359-360
Pack(f, dir) == BitOr1(ShiftLeft1(f), dir)
UnpackFace(fd) == ShiftRight1(fd)
UnpackDir(fd) == BitAnd1(fd) # 0

\* face ids of a partition: the least, the greatest, and those around the
\* greatest that still fits after the shift
FaceIds == {0, 1, Pow2(IntBits - 2) - 1, Pow2(IntBits - 2), INT_MAX}

FaceElem(s, f, d) == [val |-> f, src |-> s, orig |-> f, dir |-> d]

\* the cell-to-face lists of one partition: one entry of an owned cell, at most
\* MaxFaceEntries entries in all
FaceLists(s) ==
  UNION {[1 .. n -> {FaceElem(s, f, d) : f \in FaceIds, d \in BOOLEAN}] :
           n \in 1 .. MaxFaceEntries}

sourceNumOwnedFaceEntries(s) == 1

FaceInit ==
  /\ sourceCellToFaceList \in [Ranks -> UNION {FaceLists(s) : s \in Ranks}]
  /\ \A s \in Ranks : sourceCellToFaceList[s] \in FaceLists(s)
  /\ sourceCellToFaceDirs =
       [s \in Ranks |-> [j \in 1 .. Len(sourceCellToFaceList[s]) |->
                           sourceCellToFaceList[s][j].dir]]
  /\ \E flags \in [Ranks -> BOOLEAN] :
       /\ \A s \in Ranks :
            ~flags[s] => sourceCellToFaceList[s] = <<FaceElem(s, 0, FALSE)>>
       /\ LET rc == [i \in Ranks |-> IF flags[i] THEN Len(sourceCellToFaceList[i]) ELSE 0]
              ro == [i \in Ranks |-> IF flags[i] THEN sourceNumOwnedFaceEntries(i) ELSE 0]
          IN  cellToFaceInfo =
                [sourceNum |-> Len(sourceCellToFaceList[0]),
                 sourceNumOwned |-> sourceNumOwnedFaceEntries(0),
                 newNum |-> SumUpTo(rc, NRanks), newNumOwned |-> SumUpTo(ro, NRanks),
                 recvCounts |-> rc, recvOwnedCounts |-> ro]
  /\ newCellToFaceList = <<>>
  /\ newCellToFaceDirs = <<>>
  /\ facePc = "pack"

FaceIdle ==
  /\ sourceCellToFaceList = [s \in Ranks |-> <<>>]
  /\ sourceCellToFaceDirs = [s \in Ranks |-> <<>>]
  /\ cellToFaceInfo = NoInfo
  /\ newCellToFaceList = <<>>
  /\ newCellToFaceDirs = <<>>
  /\ facePc = "idle"

\* lines 340-348, on every rank: sourceCellToFaceList[j] = (f << 1) | dir
FacePack ==
  /\ facePc = "pack"
  /\ sourceCellToFaceList' =
       [s \in Ranks |->
          [j \in 1 .. Len(sourceCellToFaceList[s]) |->
             [sourceCellToFaceList[s][j] EXCEPT
                !.val = Pack(@, IF sourceCellToFaceDirs[s][j] THEN 1 ELSE 0)]]]
  /\ facePc' = "move"
  /\ UNCHANGED <<sourceCellToFaceDirs, cellToFaceInfo, newCellToFaceList, newCellToFaceDirs>>

\* lines 352-353: moveField(cellToFaceInfo, ..., sourceCellToFaceList, &newCellToFaceList)
FaceMoveField ==
  /\ facePc = "move"
  /\ newCellToFaceList' =
       moveField(cellToFaceInfo, sourceCellToFaceList,
                 [s \in Ranks |-> Len(sourceCellToFaceList[s])],
                 [s \in Ranks |-> sourceNumOwnedFaceEntries(s)],
                 Resized(cellToFaceInfo.newNum))
  /\ newCellToFaceDirs' = [p \in 1 .. cellToFaceInfo.newNum |-> FALSE]
  /\ facePc' = "unpack"
  /\ UNCHANGED <<sourceCellToFaceList, sourceCellToFaceDirs, cellToFaceInfo>>

\* lines 356-361: newCellToFaceList[j] = fd >> 1; newCellToFaceDirs[j] = fd & 1
FaceUnpack ==
  /\ facePc = "unpack"
  /\ newCellToFaceList' =
       [j \in 1 .. Len(newCellToFaceList) |->
          [newCellToFaceList[j] EXCEPT !.val = UnpackFace(@)]]
  /\ newCellToFaceDirs' =
       [j \in 1 .. Len(newCellToFaceList) |-> UnpackDir(newCellToFaceList[j].val)]
  /\ facePc' = "done"
  /\ UNCHANGED <<sourceCellToFaceList, sourceCellToFaceDirs, cellToFaceInfo>>

(***************************************************************************)
(* IntersectSweptFace<2, CELL>::operator() (intersect_swept_faces.h, lines  *)
(* 280-496) for the target cell target_id = source_id.  An edge of the cell *)
(* has its direction, the cells of the source mesh it bounds, and two nodes *)
(* with their source and target positions.  Coordinates are small even      *)
(* integers, on which the double arithmetic of the code is exact.  Only the *)
(* 0th moment of an entry is kept.                                          *)
(***************************************************************************)
source_id == 0

\* the source positions of nodes[0] and nodes[1] of an edge
SourceNode0 == <<0, 0>>
SourceNode1 == <<2, 0>>

\* where a node can be on the target mesh: moved to either side of the edge,
\* or not moved
TargetNode0 == {<<0, 2>>, <<0, -2>>, <<0, 0>>}
TargetNode1 == {<<2, 2>>, <<2, -2>>, <<2, 0>>}

\* face_get_cells(edge, ALL): the cell alone (a boundary edge), or the cell and
\* the neighbour across edge number i, in either order
FaceCells(i) == {<<source_id>>, <<source_id, i>>, <<i, source_id>>}

SweptEdges(i) ==
  [dir : {-1, 1}, target0 : TargetNode0, target1 : TargetNode1, facecells : FaceCells(i)]

\* lines 339-353: the swept polygon a, b, c, d of an edge
swept_polygon(e) ==
  IF e.dir > 0 THEN <<SourceNode1, SourceNode0, e.target0, e.target1>>
  ELSE <<SourceNode0, SourceNode1, e.target1, e.target0>>

\* lines 366-378: det[0] and det[1]
det(e) ==
  LET p  == swept_polygon(e)
      ax == p[1][1]  ay == p[1][2]
      bx == p[2][1]  by == p[2][2]
      cx == p[3][1]  cy == p[3][2]
      dx == p[4][1]  dy == p[4][2]
  IN  <<ax * by - ax * dy - bx * ay + bx * dy + dx * ay - dx * by,
        bx * cy - bx * dy - cx * by + cx * dy + dx * by - dx * cy>>

\* lines 381-384
both_positive(e) == det(e)[1] >= 0 /\ det(e)[2] >= 0
both_negative(e) == det(e)[1] < 0 /\ det(e)[2] < 0

\* line 390: 0.5 * (det[0] + det[1])
signed_area(e) == (det(e)[1] + det(e)[2]) \div 2

\* get_face_incident_neigh (lines 258-269)
get_face_incident_neigh(cell, e) ==
  IF Len(e.facecells) = 2
    THEN e.facecells[IF e.facecells[1] = cell THEN 2 ELSE 1]
    ELSE -1

in_stencil(cell) == cell \in stencil

\* NumericTolerances_t::minimal_intersection_volume (portage.h, line 189) is
\* -1e-14; for an area that is an integer, not below it means not below 0
minimal_intersection_volume == 0

SweptInit ==
  /\ sweptEdges \in UNION {[1 .. n -> UNION {SweptEdges(i) : i \in 1 .. n}] :
                             n \in 1 .. MaxEdges}
  /\ \A i \in 1 .. Len(sweptEdges) : sweptEdges[i] \in SweptEdges(i)
  /\ stencil \in {{source_id} \cup S : S \in SUBSET (1 .. MaxEdges)}
  /\ stencil \subseteq 0 .. Len(sweptEdges)
  /\ swept_moments = <<>>
  /\ sweptI = 0
  /\ sweptPc = "edges"
  /\ sweptErr = "none"

SweptIdle ==
  /\ sweptEdges = <<>>
  /\ stencil = {}
  /\ swept_moments = <<>>
  /\ sweptI = 0
  /\ sweptPc = "idle"
  /\ sweptErr = "none"

\* lines 318-487: one pass of the loop over the edges, for edge i = sweptI, and
\* the return that follows the last pass
SweptEdge ==
  /\ sweptPc = "edges"
  /\ LET e     == sweptEdges[sweptI + 1]
         neigh == get_face_incident_neigh(source_id, e)
         entry(cell) == [entityID |-> cell, weights |-> <<signed_area(e)>>]
         goOn  == IF sweptI + 1 < Len(sweptEdges) THEN "edges" ELSE "returned"
     IN  IF ~both_positive(e) /\ ~both_negative(e)
           THEN /\ sweptErr' = "twisted"
                /\ swept_moments' = <<>>
                /\ sweptPc' = "returned"
         ELSE IF signed_area(e) < 0
           THEN /\ swept_moments' = Append(swept_moments, entry(source_id))
                /\ sweptPc' = goOn
                /\ UNCHANGED sweptErr
         ELSE IF neigh < 0
           THEN /\ sweptPc' = goOn
                /\ UNCHANGED <<swept_moments, sweptErr>>
         ELSE IF ~in_stencil(neigh)
           THEN /\ sweptErr' = "stencil"
                /\ swept_moments' = <<>>
                /\ sweptPc' = "returned"
         ELSE /\ swept_moments' = Append(swept_moments, entry(neigh))
              /\ sweptPc' = goOn
              /\ UNCHANGED sweptErr
  /\ sweptI' = sweptI + 1
  /\ UNCHANGED <<sweptEdges, stencil>>

(***************************************************************************)
(* Driver::run(distributed) on one rank, for the cell variables            *)
(* (src/driver/driver.h, lines 353-548).  The caller hands the driver a     *)
(* source mesh, a source state and a target mesh by const reference and a   *)
(* target state by reference (lines 674-677).  A mesh is the list of its    *)
(* cells, a cell being its entry of the cell-to-face list and its           *)
(* direction; a state is the list of the values of the one remapped cell    *)
(* variable.  Search and Intersect are template parameters of the driver:   *)
(* what they return is an input, the functors around them are modelled.     *)
(***************************************************************************)
RunCells(n) == [i \in 1 .. n |-> [face |-> i - 1, dir |-> (i % 2 = 1)]]

\* the values of a field, as reals
FieldValues == {1 * Scale, 3 * Scale}

\* the 0th moments an intersection can have, as reals
Weights == {1 * Scale, 2 * Scale}

EmptyMesh == <<>>

RunInit ==
  /\ \E n \in 1 .. MaxCells :
       /\ source_mesh_ = RunCells(n)
       /\ source_state_ \in [1 .. n -> FieldValues]
  /\ \E n \in 1 .. MaxTargets :
       /\ target_mesh_ = [i \in 1 .. n |-> i]
       /\ target_field = [i \in 1 .. n |-> 0]
  /\ distributed \in BOOLEAN
  /\ source_mesh_flat = EmptyMesh
  /\ source_state_flat = <<>>
  /\ candidates = <<>>
  /\ source_cells_and_weights = <<>>
  /\ interpolated = {}
  /\ runPc = "start"

RunIdle ==
  /\ source_mesh_ = EmptyMesh
  /\ source_state_ = <<>>
  /\ target_mesh_ = <<>>
  /\ target_field = <<>>
  /\ distributed = FALSE
  /\ source_mesh_flat = EmptyMesh
  /\ source_state_flat = <<>>
  /\ candidates = <<>>
  /\ source_cells_and_weights = <<>>
  /\ interpolated = {}
  /\ runPc = "idle"

\* target_mesh_.begin(CELL) .. target_mesh_.end(CELL)
TargetCells == 1 .. Len(target_mesh_)

\* Flat_State_Wrapper::initialize (flat_state_wrapper.h, 97-122): the data of every
\* variable is copied into new storage
FlatStateInitialize(input) == [i \in 1 .. Len(input) |-> input[i]]

\* Flat_Mesh_Wrapper::initialize, called at line 398 on the const reference
\* source_mesh_: the lists of the flat mesh are filled from the mesh
FlatMeshInitialize(input) == [i \in 1 .. Len(input) |-> input[i]]

\* mpi_bounding_boxes.h, lines 340-348, on the list of the mesh it is given
PackedInPlace(mesh) ==
  [j \in 1 .. Len(mesh) |->
     [mesh[j] EXCEPT !.face = Pack(@, IF mesh[j].dir THEN 1 ELSE 0)]]

\* what the packing of lines 340-348 leaves in the caller's source mesh: the list
\* it writes is that of source_mesh_flat, a local of run (line 392)
CallerMeshAfterPackingMut(mesh, packed) == packed
CallerMeshAfterPacking(mesh, packed) == mesh

\* what the other rank sends to this one: no cell, or the one cell of its mesh
\* with its value
RemoteParts ==
  {<<>>} \cup {<<[face |-> RunCells(1)[1].face, dir |-> RunCells(1)[1].dir, val |-> v]>> :
                 v \in FieldValues}

\* lines 356-361 and fixListIndices (line 667) on one received entry
Received(fd, offset) == [face |-> UnpackFace(fd) + offset, dir |-> UnpackDir(fd)]

\* lines 395-402: the flat wrappers are filled from the caller's mesh and state and
\* distribute replaces their contents by what this rank receives: its own cells,
\* if its source box overlaps its target box, and then the cells of the other rank
RunDistribute ==
  /\ runPc = "start"
  /\ distributed
  /\ LET flat   == FlatMeshInitialize(source_mesh_)
         state  == FlatStateInitialize(source_state_)
         packed == PackedInPlace(flat)
     IN  \E self \in BOOLEAN, remote \in RemoteParts :
           LET own    == IF self THEN packed ELSE <<>>
               ownVal == IF self THEN state ELSE <<>>
               rem    == [j \in 1 .. Len(remote) |->
                            Pack(remote[j].face, IF remote[j].dir THEN 1 ELSE 0)]
           IN  /\ source_mesh_flat' =
                    [j \in 1 .. Len(own) |-> Received(own[j].face, 0)] \o
                    [j \in 1 .. Len(rem) |-> Received(rem[j], Len(own))]
               /\ source_state_flat' =
                    ownVal \o [j \in 1 .. Len(remote) |-> remote[j].val]
               /\ source_mesh_' = CallerMeshAfterPacking(source_mesh_, packed)
  /\ runPc' = "search"
  /\ UNCHANGED <<source_state_, target_mesh_, target_field, distributed, candidates,
                 source_cells_and_weights, interpolated>>

\* the mesh and the state the three phases read (lines 405, 415, 434, 447, 484, 504)
SearchedMesh == IF distributed THEN source_mesh_flat ELSE source_mesh_
SourceVals == IF distributed THEN source_state_flat ELSE source_state_

\* what a search can return for one target cell: up to MaxCand distinct source cells
CandidateLists(n) ==
  UNION {{c \in [1 .. k -> 1 .. n] : \A i, j \in 1 .. k : i # j => c[i] # c[j]} :
           k \in 0 .. MaxCand}

\* lines 404-422: candidates[t] = searchfunctor(t) for every target cell
RunSearch ==
  /\ runPc = (IF distributed THEN "search" ELSE "start")
  /\ candidates' \in [TargetCells -> CandidateLists(Len(SearchedMesh))]
  /\ runPc' = "intersect"
  /\ UNCHANGED <<source_mesh_, source_state_, target_mesh_, target_field, distributed,
                 source_mesh_flat, source_state_flat, source_cells_and_weights,
                 interpolated>>

\* what an intersection of two cells can return: no piece, one piece, or two
\* disjoint pieces (lines 452-460)
MomentSets == {<<>>, <<1 * Scale, 1 * Scale>>} \cup {<<w>> : w \in Weights}

\* IntersectFunctor::operator(), lines 780-802: the moment sets of candidate i and after
RECURSIVE IntersectFunctor(_, _, _)
IntersectFunctor(cands, moments, i) ==
  IF i > Len(cands) THEN <<>>
  ELSE [j \in 1 .. Len(moments[i]) |-> [entityID |-> cands[i], weights |-> moments[i][j]]]
       \o IntersectFunctor(cands, moments, i + 1)

\* lines 431-468: source_cells_and_weights[t] = intersectfunctor(t, candidates[t])
RunIntersect ==
  /\ runPc = "intersect"
  /\ \E moments \in [TargetCells -> [1 .. MaxCand -> MomentSets]] :
       /\ \A t \in TargetCells, i \in 1 .. MaxCand :
            i > Len(candidates[t]) => moments[t][i] = <<>>
       /\ source_cells_and_weights' =
            [t \in TargetCells |-> IntersectFunctor(candidates[t], moments[t], 1)]
  /\ runPc' = "interpolate"
  /\ UNCHANGED <<source_mesh_, source_state_, target_mesh_, target_field, distributed,
                 source_mesh_flat, source_state_flat, candidates, interpolated>>

\* a quotient of non-negative integers, rounded to nearest, ties to even
RoundDiv(n, d) ==
  LET q == n \div d
      r == n % d
  IN  IF 2 * r < d THEN q
      ELSE IF 2 * r > d THEN q + 1
      ELSE IF q % 2 = 0 THEN q ELSE q + 1

\* the product and the quotient of two doubles
flMul(a, b) == fl(RoundDiv(a * b, Scale))
flDivMut(a, b) == a
flDiv(a, b) == fl(RoundDiv(a * Scale, b))

\* what the operator returns for an empty list of source cells (line 138)
NoSourceCellsMut == Scale
NoSourceCells == 0

\* Remap_1stOrder::operator(), lines 155-163: the loop from entry j on
RECURSIVE Accumulate(_, _, _, _)
Accumulate(source_vals, saw, j, acc) ==
  IF j > Len(saw) THEN acc
  ELSE Accumulate(source_vals, saw, j + 1,
         [val |-> fl(acc.val + flMul(source_vals[saw[j].entityID], saw[j].weights)),
          sumofweights |-> fl(acc.sumofweights + saw[j].weights)])

\* Remap_1stOrder::operator() (remap_1st_order.h, 130-170)
Remap_1stOrder(source_vals, saw) ==
  IF Len(saw) = 0 THEN NoSourceCells
  ELSE LET acc == Accumulate(source_vals, saw, 1, [val |-> 0, sumofweights |-> 0])
       IN  flDiv(acc.val, acc.sumofweights)

\* the entry of target_field the transform writes the result of work item t to
\* (lines 495-498 and 523-526: result + (t - first))
OutIndexMut(t) == 1
OutIndex(t) == t

\* lines 481-535: one work item of the transform over the target cells.  The items
\* run in index order with std::transform and in any order with thrust::transform
RunInterpolate(t) ==
  /\ runPc = "interpolate"
  /\ t \in TargetCells \ interpolated
  /\ target_field' =
       [target_field EXCEPT ![OutIndex(t)] =
          Remap_1stOrder(SourceVals, source_cells_and_weights[t])]
  /\ interpolated' = interpolated \cup {t}
  /\ runPc' = IF interpolated' = TargetCells THEN "done" ELSE "interpolate"
  /\ UNCHANGED <<source_mesh_, source_state_, target_mesh_, distributed, source_mesh_flat,
                 source_state_flat, candidates, source_cells_and_weights>>

(***************************************************************************)
(* The same 1st-order cell remap on 1 rank and on NRanks ranks, for one     *)
(* target cell, and distributed_cmp (app/distributed_cmp/distributed_cmp.cc)*)
(* on the two results.  The source cells are numbered by global id; on one  *)
(* rank the local index of a cell is its global id, on NRanks ranks every   *)
(* cell is owned by one rank.  All source cells overlap the target cell.    *)
(***************************************************************************)
SourceCells == 1 .. (MaxCells + 1)

\* a constant field (a = 0) or a linear one, at the centroid g of cell g
LinearField(a, b) == [g \in SourceCells |-> (a * g + b) * Scale]

\* double DEFAULT_TOLERANCE=1.e-14 (line 17), in units of epsilon
DEFAULT_TOLERANCE == 45 * epsilon

EquivInit ==
  /\ partOwner \in [SourceCells -> Ranks]
  /\ \A s \in Ranks : Cardinality({g \in SourceCells : partOwner[g] = s}) <= MaxCells
  /\ \E a \in 0 .. 2, b \in {1, 3} : srcVals = LinearField(a, b)
  /\ overlap \in [SourceCells -> {1 * Scale, 2 * Scale, 3 * Scale}]
  /\ tol \in {0, DEFAULT_TOLERANCE}
  /\ serial_map = 0
  /\ distributed_map = 0
  /\ cmpStatus = "none"
  /\ eqPc = "serial"

EquivIdle ==
  /\ partOwner = <<>>
  /\ srcVals = <<>>
  /\ overlap = <<>>
  /\ tol = 0
  /\ serial_map = 0
  /\ distributed_map = 0
  /\ cmpStatus = "none"
  /\ eqPc = "idle"

\* the cells of rank s, in the order of its local indices
RECURSIVE OwnedBy(_, _)
OwnedBy(s, g) ==
  IF g > MaxCells + 1 THEN <<>>
  ELSE (IF partOwner[g] = s THEN <<g>> ELSE <<>>) \o OwnedBy(s, g + 1)

\* moveField and moveData (mpi_bounding_boxes.h, 761-868) on the cells: the flat mesh
\* of the receiving rank holds the cells of rank 0, then those of rank 1, and so on
RECURSIVE Redistributed(_)
Redistributed(s) ==
  IF s >= NRanks THEN <<>> ELSE OwnedBy(s, 1) \o Redistributed(s + 1)

\* the search for the target cell on a mesh of n cells that all overlap it: the cells
\* are reported in the order of their index
SearchAll(n) == [i \in 1 .. n |-> i]

\* IntersectFunctor on the candidates of a mesh whose cell i has global id gids[i]:
\* the overlap of two cells depends on their coordinates only
WeightsOf(gids, cands) ==
  [j \in 1 .. Len(cands) |-> [entityID |-> cands[j], weights |-> overlap[gids[cands[j]]]]]

\* Driver::run(false) on one rank (lines 412-422, 444-468, 501-535)
EquivSerial ==
  /\ eqPc = "serial"
  /\ LET gids == [g \in SourceCells |-> g]
     IN  serial_map' =
           Remap_1stOrder(srcVals, WeightsOf(gids, SearchAll(Len(gids))))
  /\ eqPc' = "distributed"
  /\ UNCHANGED <<partOwner, srcVals, overlap, distributed_map, tol, cmpStatus>>

\* Driver::run(true) on the rank of the target cell (lines 395-410, 431-443, 481-500)
EquivDistributed ==
  /\ eqPc = "distributed"
  /\ LET gids == Redistributed(0)
         flatVals == [i \in 1 .. Len(gids) |-> srcVals[gids[i]]]
     IN  distributed_map' =
           Remap_1stOrder(flatVals, WeightsOf(gids, SearchAll(Len(gids))))
  /\ eqPc' = "compare"
  /\ UNCHANGED <<partOwner, srcVals, overlap, serial_map, tol, cmpStatus>>

Abs(x) == IF x < 0 THEN -x ELSE x

\* distributed_cmp main, lines 115-132 and 156
EquivCompare ==
  /\ eqPc = "compare"
  /\ cmpStatus' = IF Abs(distributed_map - serial_map) > tol
                    THEN "conflicting key" ELSE "Success"
  /\ eqPc' = "done"
  /\ UNCHANGED <<partOwner, srcVals, overlap, serial_map, distributed_map, tol>>

(***************************************************************************)
(* Flat_State_Wrapper (src/wrappers/state/flat/flat_state_wrapper.h)       *)
(***************************************************************************)
\* the most arguments of one initialize, the longest data vector, the data values
MaxAdds == 2
MaxVecLen == 2
FswNames == {"d1", "d2"}
FswValues == {1, 2}
FswVectors == UNION {[1 .. n -> FswValues] : n \in 1 .. MaxVecLen}
FswLists(S) == UNION {[1 .. n -> S] : n \in 0 .. MaxAdds}
\* the state wrappers an initialize can copy from
InputWrappers == [FswNames -> [entity : Kinds, data : FswVectors]]

\* Flat_State_Wrapper() { }: nothing stored
FswInit ==
  /\ state_ = <<>>
  /\ name_map_ = <<>>
  /\ entity_map_ = <<>>
  /\ entity_size_map_ = <<>>
  /\ fswPending = <<>>
  /\ fswErr = "none"

FswIdle == FswInit

\* the test of line 304 on the size recorded for the entity kind
SizeAgreesMut(recorded, data) == TRUE
SizeAgrees(recorded, data) == recorded = Len(data)

\* add_data(on_what, var_name, data), lines 300-322, from the state st
add_data(st, on_what, var_name, data) ==
  LET pair == <<var_name, on_what>>
      seen == on_what \in DOMAIN st.entity_size_map_
  IN  IF seen /\ ~SizeAgrees(st.entity_size_map_[on_what], data)
      THEN [thrown |-> TRUE, st |-> st]
      ELSE
        LET sized == IF seen THEN st.entity_size_map_
                     ELSE st.entity_size_map_ @@ (on_what :> Len(data))
        IN  IF pair \notin DOMAIN st.name_map_
            THEN [thrown |-> FALSE,
                  st |-> [state_ |-> Append(st.state_, data),
                          name_map_ |-> st.name_map_ @@ (pair :> Len(st.state_)),
                          entity_map_ |-> (var_name :> on_what) @@ st.entity_map_,
                          entity_size_map_ |-> (on_what :> Len(data)) @@ sized]]
            ELSE [thrown |-> FALSE,
                  st |-> [state_ |-> [st.state_ EXCEPT ![st.name_map_[pair] + 1] = data],
                          name_map_ |-> st.name_map_,
                          entity_map_ |-> st.entity_map_,
                          entity_size_map_ |-> sized]]

\* clear(), lines 282-288, and the arguments the loop is going to add
FswStartLoop(args) ==
  /\ state_' = <<>>
  /\ name_map_' = <<>>
  /\ entity_map_' = <<>>
  /\ entity_size_map_' = <<>>
  /\ fswPending' = args
  /\ fswErr' = "none"

\* initialize(input, var_names), lines 97-122: entity and a copy of the data of every name
FswInitializeWrapper ==
  /\ fswPending = <<>>
  /\ \E input \in InputWrappers : \E var_names \in FswLists(FswNames) :
       FswStartLoop([i \in 1 .. Len(var_names) |->
                       [on_what |-> input[var_names[i]].entity,
                        var_name |-> var_names[i],
                        data |-> input[var_names[i]].data]])
  /\ UNCHANGED <<drvVars, boxVars, distVars, reconVars, faceVars, sweptVars, runVars, equivVars, fixVars, partVars>>

\* initialize(names, entities, data), lines 148-161
FswInitializeLists ==
  /\ fswPending = <<>>
  /\ \E nn, ne, nd \in 0 .. MaxAdds :
     \E names \in [1 .. nn -> FswNames] : \E entities \in [1 .. ne -> Kinds] :
     \E data \in [1 .. nd -> FswVectors] :
       IF ~(Len(names) = Len(entities) /\ Len(names) = Len(data))
       THEN /\ fswErr' = "argument sizes do not agree"
            /\ UNCHANGED <<state_, name_map_, entity_map_, entity_size_map_, fswPending>>
       ELSE FswStartLoop([i \in 1 .. Len(names) |->
                            [on_what |-> entities[i], var_name |-> names[i], data |-> data[i]]])
  /\ UNCHANGED <<drvVars, boxVars, distVars, reconVars, faceVars, sweptVars, runVars, equivVars, fixVars, partVars>>

\* one pass of the loop of an initialize: add_data on the next argument; an exception
\* leaves the function, and the arguments not yet added are dropped
FswAddData ==
  /\ fswPending # <<>>
  /\ LET a == Head(fswPending)
         r == add_data([state_ |-> state_, name_map_ |-> name_map_,
                        entity_map_ |-> entity_map_,
                        entity_size_map_ |-> entity_size_map_],
                       a.on_what, a.var_name, a.data)
     IN  /\ state_' = r.st.state_
         /\ name_map_' = r.st.name_map_
         /\ entity_map_' = r.st.entity_map_
         /\ entity_size_map_' = r.st.entity_size_map_
         /\ fswPending' = IF r.thrown THEN <<>> ELSE Tail(fswPending)
         /\ fswErr' = IF r.thrown THEN "has incompatible size on add" ELSE "none"
  /\ UNCHANGED <<drvVars, boxVars, distVars, reconVars, faceVars, sweptVars, runVars, equivVars, fixVars, partVars>>

(***************************************************************************)
(* Mismatch repair, policy SHIFTED_CONSERVATIVE.  The repair loop is in the *)
(* core driver, which FancyDriver::interpolate (driver/fancydriver.h,       *)
(* 521-598) calls with conservation_tol and max_fixup_iter; the loop is     *)
(* modelled from the specification, section 4.9, and from                   *)
(* compute_shifted_density of driver/test/test_driver_part_mismatch.cc.     *)
(* Values, volumes and masses are reals held as x * Scale.                  *)
(***************************************************************************)
\* the most covered target cells of a part
MaxFixCells == 2

\* portage.h, lines 151 and 154
DEFAULT_CONSERVATION_TOL == 100 * epsilon
DEFAULT_MAX_FIXUP_ITER == 5

\* the values conservation_tol and max_fixup_iter are called with
TolChoices == {0, epsilon, DEFAULT_CONSERVATION_TOL}
IterChoices == {1, 2, DEFAULT_MAX_FIXUP_ITER}
FixVolumes == {1 * Scale, 2 * Scale}
FixMasses == {1 * Scale, 3 * Scale, 5 * Scale}

FixInit ==
  /\ fixVals = <<>>
  /\ fixVol = Scale
  /\ fixSource = Scale
  /\ conservation_tol = DEFAULT_CONSERVATION_TOL
  /\ max_fixup_iter = DEFAULT_MAX_FIXUP_ITER
  /\ fixIter = 0
  /\ fixPc = "ready"
  /\ fixRecord = [converged |-> TRUE, residual |-> 0, iterations |-> 0]
  /\ fixReturned = <<>>

FixIdle == FixInit

\* products and quotients of doubles of either sign
sMul(a, b) == IF a < 0 THEN -flMul(-a, b) ELSE flMul(a, b)
sDiv(a, b) == IF a < 0 THEN -flDiv(-a, b) ELSE flDiv(a, b)

\* the sum of (target value x target volume) over cells 1 .. n
RECURSIVE TargetMass(_, _, _)
TargetMass(vals, vol, n) ==
  IF n = 0 THEN 0 ELSE fl(TargetMass(vals, vol, n - 1) + sMul(vals[n], vol))

\* the global mass discrepancy: target mass minus source mass
MassDelta(vals, vol, source) == fl(TargetMass(vals, vol, Len(vals)) - source)

\* the discrepancy is within the relative tolerance ctol
Converged(vals, vol, source, ctol) ==
  Abs(MassDelta(vals, vol, source)) * Scale <= ctol * source

\* one pass: subtract delta mass / number of cells / cell volume from each cell
Shifted(vals, vol, source) ==
  LET discrepancy == sDiv(sDiv(MassDelta(vals, vol, source), Len(vals) * Scale), vol)
  IN  [c \in 1 .. Len(vals) |-> fl(vals[c] - discrepancy)]

\* the two tests of the loop condition
MayIterateMut(iter, max) == TRUE
MayIterate(iter, max) == iter < max
StopNowMut(conv, iter, max) == TRUE
StopNow(conv, iter, max) == conv \/ ~MayIterate(iter, max)

\* FancyDriver::interpolate is a void function (fancydriver.h, line 527): whatever
\* the calls of lines 552-590 yield is dropped, and no parameter is an output
ReturnedToCaller(record) == [f \in {} |-> record]

\* interpolate(..., SHIFTED_CONSERVATIVE, ..., conservation_tol, max_fixup_iter) on a
\* part whose covered target cells hold the raw values vals
FixCall ==
  /\ fixPc \in {"ready", "done"}
  /\ \E n \in 1 .. MaxFixCells :
       fixVals' \in [1 .. n -> FieldValues]
  /\ fixVol' \in FixVolumes
  /\ fixSource' \in FixMasses
  /\ conservation_tol' \in TolChoices
  /\ max_fixup_iter' \in IterChoices
  /\ fixIter' = 0
  /\ fixPc' = "loop"
  /\ UNCHANGED <<fixRecord, fixReturned>>
  /\ UNCHANGED <<drvVars, boxVars, distVars, reconVars, faceVars, sweptVars, runVars, equivVars, fswVars, partVars>>

\* one iteration of the repair loop
FixIterate ==
  /\ fixPc = "loop"
  /\ ~StopNow(Converged(fixVals, fixVol, fixSource, conservation_tol), fixIter,
              max_fixup_iter)
  /\ fixVals' = Shifted(fixVals, fixVol, fixSource)
  /\ fixIter' = fixIter + 1
  /\ UNCHANGED <<fixVol, fixSource, conservation_tol, max_fixup_iter, fixPc, fixRecord,
                 fixReturned>>
  /\ UNCHANGED <<drvVars, boxVars, distVars, reconVars, faceVars, sweptVars, runVars, equivVars, fswVars, partVars>>

\* the loop ends, the repair records how, and interpolate returns
FixStop ==
  /\ fixPc = "loop"
  /\ StopNow(Converged(fixVals, fixVol, fixSource, conservation_tol), fixIter,
             max_fixup_iter)
  /\ fixRecord' = [converged |-> Converged(fixVals, fixVol, fixSource, conservation_tol),
                   residual |-> MassDelta(fixVals, fixVol, fixSource),
                   iterations |-> fixIter]
  /\ fixReturned' = ReturnedToCaller(fixRecord')
  /\ fixPc' = "done"
  /\ UNCHANGED <<fixVals, fixVol, fixSource, conservation_tol, max_fixup_iter, fixIter>>
  /\ UNCHANGED <<drvVars, boxVars, distVars, reconVars, faceVars, sweptVars, runVars, equivVars, fswVars, partVars>>

(***************************************************************************)
(* Part-by-part remap and mesh-mesh remap of one cell field                 *)
(* (driver/test/test_driver_part.cc, MeshMeshRemapComparison).  A part is a *)
(* pair of a set of source cells and a set of target cells; the core driver *)
(* that interpolates on a part is modelled from the specification, section  *)
(* 4.9, with the 1st-order operator of remap/remap_1st_order.h.             *)
(***************************************************************************)
\* the two parts a list of cells can be split into (create_partition, lines 84-106)
Partitions(n) == {<<S, (1 .. n) \ S>> : S \in SUBSET (1 .. n)}

\* what the intersection can give for one target cell: pieces of distinct source cells
WeightLists(n) ==
  UNION {{[j \in 1 .. Len(c) |-> [entityID |-> c[j], weights |-> w[j]]] :
            w \in [1 .. Len(c) -> Weights]} : c \in CandidateLists(n)}

\* the fixture, lines 116-140, and the field and the weights of lines 238-250
PartInit ==
  /\ original \in [1 .. MaxCells -> FieldValues]
  /\ \E n \in 1 .. MaxTargets :
       /\ partWeights \in [1 .. n -> WeightLists(MaxCells)]
       /\ target_cells \in Partitions(n)
       /\ remapped = [t \in 1 .. n |-> 0]
       /\ remapped_parts = [t \in 1 .. n |-> 0]
  /\ source_cells \in Partitions(MaxCells)
  /\ partsDone = {}
  /\ partPc = "parts"

PartIdle ==
  /\ original = <<>>
  /\ partWeights = <<>>
  /\ source_cells = <<{}, {}>>
  /\ target_cells = <<{}, {}>>
  /\ remapped = <<>>
  /\ remapped_parts = <<>>
  /\ partsDone = {}
  /\ partPc = "idle"

\* the pieces of a target cell that come from the source cells of a part
RECURSIVE WeightsInPart(_, _)
WeightsInPart(saw, S) ==
  IF saw = <<>> THEN <<>>
  ELSE (IF Head(saw).entityID \in S THEN <<Head(saw)>> ELSE <<>>)
       \o WeightsInPart(Tail(saw), S)

\* the target cells an interpolation on part i writes
WrittenByPartMut(i) == DOMAIN remapped
WrittenByPart(i) == target_cells[i]

\* parts[i].has_mismatch() is false (line 255): every target cell of the part is
\* covered, and only by source cells of the part
NoMismatch(i) ==
  \A t \in target_cells[i] :
    /\ partWeights[t] # <<>>
    /\ \A j \in 1 .. Len(partWeights[t]) : partWeights[t][j].entityID \in source_cells[i]

\* lines 252-264: interpolate_mesh_var(..., &parts[i]) for one part
PartInterpolate(i) ==
  /\ partPc = "parts"
  /\ i \in {1, 2} \ partsDone
  /\ remapped' =
       [t \in DOMAIN remapped |->
          IF t \in WrittenByPart(i)
          THEN Remap_1stOrder(original, WeightsInPart(partWeights[t], source_cells[i]))
          ELSE remapped[t]]
  /\ partsDone' = partsDone \cup {i}
  /\ partPc' = IF partsDone' = {1, 2} THEN "store" ELSE "parts"
  /\ UNCHANGED <<original, partWeights, source_cells, target_cells, remapped_parts>>
  /\ UNCHANGED <<drvVars, boxVars, distVars, reconVars, faceVars, sweptVars, runVars, equivVars, fswVars, fixVars>>

\* lines 266-269: the part-by-part values are copied and the target field is zeroed
PartStore ==
  /\ partPc = "store"
  /\ remapped_parts' = remapped
  /\ remapped' = [t \in DOMAIN remapped |-> 0]
  /\ partPc' = "whole"
  /\ UNCHANGED <<original, partWeights, source_cells, target_cells, partsDone>>
  /\ UNCHANGED <<drvVars, boxVars, distVars, reconVars, faceVars, sweptVars, runVars, equivVars, fswVars, fixVars>>

\* lines 271-274: interpolate_mesh_var on the whole mesh
PartWhole ==
  /\ partPc = "whole"
  /\ remapped' = [t \in DOMAIN remapped |-> Remap_1stOrder(original, partWeights[t])]
  /\ partPc' = "done"
  /\ UNCHANGED <<original, partWeights, source_cells, target_cells, remapped_parts,
                 partsDone>>
  /\ UNCHANGED <<drvVars, boxVars, distVars, reconVars, faceVars, sweptVars, runVars, equivVars, fswVars, fixVars>>

(***************************************************************************)
(* Specifications                                                          *)
(***************************************************************************)
SpecDriverInit == DrvInit /\ BoxIdle /\ DistIdle /\ ReconIdle /\ FaceIdle /\ SweptIdle /\ RunIdle /\ EquivIdle /\ FswIdle /\ FixIdle /\ PartIdle

SpecDriverNext ==
  \/ \E k \in Kinds : search(k) /\ UNCHANGED <<boxVars, distVars, reconVars, faceVars, sweptVars, runVars, equivVars, fswVars, fixVars, partVars>>
  \/ \E k \in Kinds : intersect_meshes(k) /\ UNCHANGED <<boxVars, distVars, reconVars, faceVars, sweptVars, runVars, equivVars, fswVars, fixVars, partVars>>
  \/ compute_interpolation_weights /\ UNCHANGED <<boxVars, distVars, reconVars, faceVars, sweptVars, runVars, equivVars, fswVars, fixVars, partVars>>
  \/ \E v \in StateVars, k \in Kinds : interpolate(v, k) /\ UNCHANGED <<boxVars, distVars, reconVars, faceVars, sweptVars, runVars, equivVars, fswVars, fixVars, partVars>>

SpecDriver == SpecDriverInit /\ [][SpecDriverNext]_vars

SpecBoxInit == BoxInit /\ DrvIdle /\ DistIdle /\ ReconIdle /\ FaceIdle /\ SweptIdle /\ RunIdle /\ EquivIdle /\ FswIdle /\ FixIdle /\ PartIdle

SpecBoxNext ==
  \/ SetSendFlag /\ UNCHANGED <<drvVars, distVars, reconVars, faceVars, sweptVars, runVars, equivVars, fswVars, fixVars, partVars>>

SpecBox == SpecBoxInit /\ [][SpecBoxNext]_vars

SpecDistInit == DistInit /\ DrvIdle /\ BoxIdle /\ ReconIdle /\ FaceIdle /\ SweptIdle /\ RunIdle /\ EquivIdle /\ FswIdle /\ FixIdle /\ PartIdle

SpecDistNext ==
  \/ \E r \in Ranks : EnterAlltoall(r) /\ UNCHANGED <<drvVars, boxVars, reconVars, faceVars, sweptVars, runVars, equivVars, fswVars, fixVars, partVars>>
  \/ \E r \in Ranks : LeaveAlltoall(r) /\ UNCHANGED <<drvVars, boxVars, reconVars, faceVars, sweptVars, runVars, equivVars, fswVars, fixVars, partVars>>
  \/ \E r \in Ranks : PostReceives(r) /\ UNCHANGED <<drvVars, boxVars, reconVars, faceVars, sweptVars, runVars, equivVars, fswVars, fixVars, partVars>>
  \/ \E r \in Ranks : Send(r) /\ UNCHANGED <<drvVars, boxVars, reconVars, faceVars, sweptVars, runVars, equivVars, fswVars, fixVars, partVars>>
  \/ \E r \in Ranks : WaitAll(r) /\ UNCHANGED <<drvVars, boxVars, reconVars, faceVars, sweptVars, runVars, equivVars, fswVars, fixVars, partVars>>
  \/ \E r \in Ranks : LocalStep(r) /\ UNCHANGED <<drvVars, boxVars, reconVars, faceVars, sweptVars, runVars, equivVars, fswVars, fixVars, partVars>>

SpecReconInit == ReconInit /\ DrvIdle /\ BoxIdle /\ DistIdle /\ FaceIdle /\ SweptIdle /\ RunIdle /\ EquivIdle /\ FswIdle /\ FixIdle /\ PartIdle

SpecReconNext ==
  \/ ReconSetInfo /\ UNCHANGED <<drvVars, boxVars, distVars, faceVars, sweptVars, runVars, equivVars, fswVars, fixVars, partVars>>
  \/ ReconMoveMesh /\ UNCHANGED <<drvVars, boxVars, distVars, faceVars, sweptVars, runVars, equivVars, fswVars, fixVars, partVars>>
  \/ ReconMoveMaterials /\ UNCHANGED <<drvVars, boxVars, distVars, faceVars, sweptVars, runVars, equivVars, fswVars, fixVars, partVars>>
  \/ ReconUniqueRep /\ UNCHANGED <<drvVars, boxVars, distVars, faceVars, sweptVars, runVars, equivVars, fswVars, fixVars, partVars>>
  \/ ReconFixMaterialCell /\ UNCHANGED <<drvVars, boxVars, distVars, faceVars, sweptVars, runVars, equivVars, fswVars, fixVars, partVars>>
  \/ ReconRebuild /\ UNCHANGED <<drvVars, boxVars, distVars, faceVars, sweptVars, runVars, equivVars, fswVars, fixVars, partVars>>
  \/ ReconFixListIndices /\ UNCHANGED <<drvVars, boxVars, distVars, faceVars, sweptVars, runVars, equivVars, fswVars, fixVars, partVars>>
  \/ ReconFinishInit /\ UNCHANGED <<drvVars, boxVars, distVars, faceVars, sweptVars, runVars, equivVars, fswVars, fixVars, partVars>>

SpecRecon == SpecReconInit /\ [][SpecReconNext]_vars

SpecFaceInit == FaceInit /\ DrvIdle /\ BoxIdle /\ DistIdle /\ ReconIdle /\ SweptIdle /\ RunIdle /\ EquivIdle /\ FswIdle /\ FixIdle /\ PartIdle

SpecFaceNext ==
  \/ FacePack /\ UNCHANGED <<drvVars, boxVars, distVars, reconVars, sweptVars, runVars, equivVars, fswVars, fixVars, partVars>>
  \/ FaceMoveField /\ UNCHANGED <<drvVars, boxVars, distVars, reconVars, sweptVars, runVars, equivVars, fswVars, fixVars, partVars>>
  \/ FaceUnpack /\ UNCHANGED <<drvVars, boxVars, distVars, reconVars, sweptVars, runVars, equivVars, fswVars, fixVars, partVars>>

SpecFace == SpecFaceInit /\ [][SpecFaceNext]_vars

SpecSweptInit == SweptInit /\ DrvIdle /\ BoxIdle /\ DistIdle /\ ReconIdle /\ FaceIdle /\ RunIdle /\ EquivIdle /\ FswIdle /\ FixIdle /\ PartIdle

SpecSweptNext ==
  \/ SweptEdge /\ UNCHANGED <<drvVars, boxVars, distVars, reconVars, faceVars, runVars, equivVars, fswVars, fixVars, partVars>>

SpecSwept == SpecSweptInit /\ [][SpecSweptNext]_vars

SpecRunInit == RunInit /\ DrvIdle /\ BoxIdle /\ DistIdle /\ ReconIdle /\ FaceIdle /\ SweptIdle /\ EquivIdle /\ FswIdle /\ FixIdle /\ PartIdle

SpecRunNext ==
  \/ RunDistribute /\ UNCHANGED <<drvVars, boxVars, distVars, reconVars, faceVars, sweptVars, equivVars, fswVars, fixVars, partVars>>
  \/ RunSearch /\ UNCHANGED <<drvVars, boxVars, distVars, reconVars, faceVars, sweptVars, equivVars, fswVars, fixVars, partVars>>
  \/ RunIntersect /\ UNCHANGED <<drvVars, boxVars, distVars, reconVars, faceVars, sweptVars, equivVars, fswVars, fixVars, partVars>>
  \/ \E t \in 1 .. MaxTargets : RunInterpolate(t) /\ UNCHANGED <<drvVars, boxVars, distVars, reconVars, faceVars, sweptVars, equivVars, fswVars, fixVars, partVars>>

SpecRun == SpecRunInit /\ [][SpecRunNext]_vars

SpecEquivInit == EquivInit /\ DrvIdle /\ BoxIdle /\ DistIdle /\ ReconIdle /\ FaceIdle /\ SweptIdle /\ RunIdle /\ FswIdle /\ FixIdle /\ PartIdle

SpecEquivNext ==
  \/ EquivSerial /\ UNCHANGED <<drvVars, boxVars, distVars, reconVars, faceVars, sweptVars, runVars, fswVars, fixVars, partVars>>
  \/ EquivDistributed /\ UNCHANGED <<drvVars, boxVars, distVars, reconVars, faceVars, sweptVars, runVars, fswVars, fixVars, partVars>>
  \/ EquivCompare /\ UNCHANGED <<drvVars, boxVars, distVars, reconVars, faceVars, sweptVars, runVars, fswVars, fixVars, partVars>>

SpecEquiv == SpecEquivInit /\ [][SpecEquivNext]_vars

SpecFlatInit == FswInit /\ DrvIdle /\ BoxIdle /\ DistIdle /\ ReconIdle /\ FaceIdle /\ SweptIdle /\ RunIdle /\ EquivIdle /\ FixIdle /\ PartIdle

SpecFlatNext ==
  \/ FswInitializeWrapper
  \/ FswInitializeLists
  \/ FswAddData

SpecFlat == SpecFlatInit /\ [][SpecFlatNext]_vars

SpecFixInit == FixInit /\ DrvIdle /\ BoxIdle /\ DistIdle /\ ReconIdle /\ FaceIdle /\ SweptIdle /\ RunIdle /\ EquivIdle /\ FswIdle /\ PartIdle

SpecFixNext ==
  \/ FixCall
  \/ FixIterate
  \/ FixStop

SpecFix == SpecFixInit /\ [][SpecFixNext]_vars

\* the repair runs inside one call of interpolate, on one thread: a loop that has
\* not ended takes its next step, another iteration or the exit
FixLoopStep ==
  /\ fixPc = "loop"
  /\ \/ fixIter' = fixIter + 1 /\ fixPc' = "loop"
     \/ fixIter' = fixIter /\ fixPc' = "done"

SpecFixLive == SpecFix /\ WF_<<fixIter, fixPc>>(FixLoopStep)

SpecPartInit == PartInit /\ DrvIdle /\ BoxIdle /\ DistIdle /\ ReconIdle /\ FaceIdle /\ SweptIdle /\ RunIdle /\ EquivIdle /\ FswIdle /\ FixIdle

SpecPartNext ==
  \/ \E i \in {1, 2} : PartInterpolate(i)
  \/ PartStore
  \/ PartWhole

SpecPart == SpecPartInit /\ [][SpecPartNext]_vars

\* every rank is a process of its own that keeps running
SpecDist ==
  /\ SpecDistInit /\ [][SpecDistNext]_vars
  /\ \A r \in Ranks : WF_vars(RankStep(r) /\ UNCHANGED <<drvVars, boxVars, reconVars, faceVars, sweptVars, runVars, equivVars, fswVars, fixVars, partVars>>)

\* the steps of distribute on a rank: size exchange, payload exchange, material
\* reconciliation, field data, adjacency repair
DistributeSteps ==
  {"sizes", "mesh", "field", "repair"}
    \cup (IF multimat THEN {"matsizes", "mat", "reconcile"} ELSE {})

SearchStarted(r) ==
  /\ pc[r].phase # "idle"
  /\ Done(r) \/ Step(r).name = "search"

\* the payloads rank r is to receive from its peers
ExpectedPayloads(r) ==
  {<<s, <<n, k, sendCount(s, k, r)>> >> :
     s \in {q \in Ranks \ {r} : sendFlags[q][r]},
     n \in {"mesh", "field"}, k \in {"owned", "ghost"}}

\* C2: when the source is redistributed, every step of distribute (size
\* exchange, payload exchange, adjacency repair, material reconciliation, field
\* data) has run to completion on a rank before that rank starts search: at
\* search the rank has done every step, has no receive outstanding, and holds
\* every payload its peers were to send it.
C2_DistributeBeforeSearch ==
  \A r \in Ranks :
    SearchStarted(r) =>
      /\ DistributeSteps \subseteq stepsDone[r]
      /\ posted[r] = <<>>
      /\ \A e \in ExpectedPayloads(r) :
            e[2][3] > 0 => <<e[1], e[2], e[2]>> \in received[r]

C2_Witness ==
  \E r, q \in Ranks :
    /\ "search" \in stepsDone[r]
    /\ multimat /\ sendFlags[q][r] /\ q # r /\ numGhost[q] > 0
    /\ \E x \in received[r] : x[1] = q /\ x[2][1] = "field" /\ x[2][2] = "ghost"
    /\ ~Done(q)

C3_PostedFirst ==
  \A r \in Ranks :
    (pc[r].phase = "send") =>
      \A s \in Ranks \ {r} :
        sendCount(s, Step(r).kind, r) > 0 =>
          \E i \in 1 .. Len(posted[r]) :
            posted[r][i].src = s /\ posted[r][i].want[1] = Step(r).name

C3_AllDone == \A r \in Ranks : pc[r].phase = "end"

Gid(s, j) == sourceCellGlobalIds(s)[j + 1]
Senders == {s \in Ranks : toMe[s]}
MeshMoved == rpc \notin {"idle", "setInfo", "moveMesh"}
IndicesFixed == rpc \in {"rebuild", "fixListIndices", "finish_init", "done"} /\ nmats(commRank) > 0
Rebuilt == rpc \in {"fixListIndices", "finish_init", "done"} /\ nmats(commRank) > 0
GidAt(v) ==
  IF v \in 0 .. Len(newCellGlobalIds) - 1 THEN newCellGlobalIds[v + 1].val ELSE 0

\* C4: after distribute, positions [0, newNumOwned) of a received array hold
\* exactly the owned entries received from all sending ranks and positions
\* [newNumOwned, newNum) hold exactly the ghost entries, newNumOwned <= newNum.
C4_OwnedThenGhost ==
  MeshMoved =>
    LET at(p) == <<newCellGlobalIds[p].src, newCellGlobalIds[p].val>>
        owned == {<<s, g>> \in Senders \X GlobalIds : g \in Range(part[s].owned)}
        ghost == {<<s, g>> \in Senders \X GlobalIds : g \in Range(part[s].ghost)}
    IN  /\ cellInfo.newNumOwned <= cellInfo.newNum
        /\ Len(newCellGlobalIds) = cellInfo.newNum
        /\ cellInfo.newNumOwned = Cardinality(owned)
        /\ cellInfo.newNum - cellInfo.newNumOwned = Cardinality(ghost)
        /\ {at(p) : p \in 1 .. cellInfo.newNumOwned} = owned
        /\ {at(p) : p \in cellInfo.newNumOwned + 1 .. cellInfo.newNum} = ghost

C4_Witness ==
  /\ rpc = "done"
  /\ \E s, t \in Senders :
       s < t /\ Len(part[s].ghost) > 0 /\ Len(part[t].ghost) > 0
  /\ cellInfo.newNumOwned >= 2 /\ cellInfo.newNum >= cellInfo.newNumOwned + 2

C6_AdjacencySame ==
  rpc \in {"finish_init", "done"} =>
    \A p \in 1 .. Len(newCellToNodeList) :
      LET e == newCellToNodeList[p]
      IN  e.src \in Ranks /\ GidAt(e.val) = Gid(e.src, e.orig)

C6_MaterialSame ==
  IndicesFixed =>
    \A p \in 1 .. Len(all_material_cells) :
      LET e == all_material_cells[p]
      IN  e.src \in Ranks /\ GidAt(e.val) = Gid(e.src, e.orig)

\* C6: after distribute, every index stored in a redistributed adjacency list
\* or in the material-cell list refers, in the receiver's concatenated numbering,
\* to the entity (global id) it referred to on the sending rank, for senders
\* with and without ghost entities.
C6_IndicesReferSame == C6_AdjacencySame /\ C6_MaterialSame

C9_ReadsOwnPosition ==
  (rpc \in {"fixMaterialCells", "rebuild"}) =>
    \A k \in 0 .. running_counter - 1 :
      LET e == all_material_cells[k + 1]
      IN  e.val = cellUniqueRep[e.orig + offsets(e.src) + 1]

RECURSIVE SumCells(_, _)
SumCells(ms, m) ==
  IF ms = <<>> THEN 0
  ELSE (IF Head(ms).id = m THEN Len(Head(ms).cells) ELSE 0) + SumCells(Tail(ms), m)

RECURSIVE SumOver(_, _)
SumOver(S, m) ==
  IF S = {} THEN 0
  ELSE LET s == CHOOSE x \in S : TRUE IN SumCells(partMats[s], m) + SumOver(S \ {s}, m)

OffsetBoxesIntersect(src, tgt) ==
  \A k \in Dims :
    LET lo == IF src[k][1] > tgt[k][1] THEN src[k][1] ELSE tgt[k][1]
        hi == IF src[k][2] < tgt[k][2] THEN src[k][2] ELSE tgt[k][2]
    IN  /\ src[k][1] + 2 * epsilon <= src[k][2] - 2 * epsilon
        /\ tgt[k][1] + 2 * epsilon <= tgt[k][2] - 2 * epsilon
        /\ lo + 2 * epsilon <= hi - 2 * epsilon

\* the boxes have no interior point in common, but share boundary points
OnlyTouch(src, tgt) ==
  /\ \A k \in Dims : src[k][1] <= tgt[k][2] /\ tgt[k][1] <= src[k][2]
  /\ \E k \in Dims : src[k][1] = tgt[k][2] \/ tgt[k][1] = src[k][2]

(***************************************************************************)
(* C5: the sender marks send_flag[r] true if and only if its source box    *)
(* intersects the target box of r after both are offset inward on each     *)
(* face by 2 eps; boxes that only touch on a face produce no send.         *)
(***************************************************************************)
C5_SendIffOffsetOverlap ==
  boxPc = "flagged" =>
    /\ sendFlag <=> OffsetBoxesIntersect(sourceBoundingBox, targetBoundingBox)
    /\ OnlyTouch(sourceBoundingBox, targetBoundingBox) => ~sendFlag

(***************************************************************************)
(* C1: for each entity kind the phases occur in the order search,          *)
(* intersect, interpolate: the body of intersect_meshes has never run for  *)
(* a kind whose search has not run, and interpolate has never run for a    *)
(* kind whose mesh intersection has not run.                               *)
(***************************************************************************)
C1_PhaseOrder ==
  \A k \in Kinds :
    /\ nIntersect[k] > 0 => nSearch[k] > 0
    /\ nInterp[k] > 0 => nIntersect[k] > 0

\* interpolate has run for a kind, after its search and its intersection
C1_Witness ==
  \E k \in Kinds : nInterp[k] > 0 /\ nIntersect[k] > 0 /\ nSearch[k] > 0

\* C11: every cell-to-face entry shipped by distribute unpacks on the receiver
\* to the face id and the direction that were packed on the sender, for every
\* face id and both directions.
C11_PackRoundTrip ==
  facePc = "done" =>
    \A p \in 1 .. Len(newCellToFaceList) :
      /\ newCellToFaceList[p].val = newCellToFaceList[p].orig
      /\ newCellToFaceDirs[p] = newCellToFaceList[p].dir

\* C13: repeating an earlier phase invalidates the later ones: a search of a
\* kind whose intersection was complete puts the driver back in the searched
\* state, in which interpolate of that kind is not permitted (its assertion on
\* the completed intersection fails) until intersect_meshes has run again.
C13_SearchInvalidates ==
  [][\A k \in Kinds :
       (/\ mesh_intersection_completed_[k]
        /\ nSearch'[k] = nSearch[k] + 1
        /\ nIntersect'[k] = nIntersect[k])
       => ~InterpolateAssert(k)']_vars

\* C14: after one compute_interpolation_weights every interpolate call for a
\* variable of a kind uses the weights cached for that kind; an interpolate call
\* changes neither the cached weights nor the completion flags, and runs no
\* search and no intersection, and the kind stays ready for further calls.
C14_CachedWeights ==
  /\ [](\A k \in Kinds : source_weights_[k] # 0 => mesh_intersection_completed_[k])
  /\ [][\A k \in Kinds :
          nInterp'[k] = nInterp[k] + 1 =>
            /\ source_weights_' = source_weights_
            /\ search_completed_' = search_completed_
            /\ mesh_intersection_completed_' = mesh_intersection_completed_
            /\ nSearch' = nSearch /\ nIntersect' = nIntersect
            /\ \E v \in StateVars :
                 /\ get_entity(v) = k
                 /\ target_state_' = [target_state_ EXCEPT ![v] = source_weights_[k]]]_vars

\* two variables of one kind interpolated from the weights of a single
\* compute_interpolation_weights
C14_Witness ==
  /\ drvStatus = "ok"
  /\ nSearch["CELL"] = 1 /\ nIntersect["CELL"] = 1 /\ nInterp["CELL"] = 2
  /\ source_weights_["CELL"] = 1
  /\ target_state_["density"] = 1 /\ target_state_["pressure"] = 1

\* the two triangles of the swept polygon of an edge have opposite orientation
OppositeOrientation(e) == det(e)[1] * det(e)[2] < 0

\* C15: when the two triangles of a swept polygon have opposite orientation the
\* remap aborts: the intersector does not return normally once it has met such
\* an edge.
C15_TwistAborts ==
  (\E i \in 1 .. sweptI : OppositeOrientation(sweptEdges[i])) => sweptPc = "aborted"

\* C16: for an edge whose swept polygon is not twisted, a positive signed area
\* contributes exactly one entry, attributed to the neighbour across the edge
\* (none for a boundary edge), and a negative signed area contributes exactly
\* one entry, attributed to the cell itself.
C16_Attribution ==
  [][sweptI' = sweptI + 1 =>
       LET e == sweptEdges[sweptI + 1]
           entry(cell) == [entityID |-> cell, weights |-> <<signed_area(e)>>]
       IN  ~OppositeOrientation(e) =>
             /\ signed_area(e) > 0 /\ Len(e.facecells) = 1 =>
                  swept_moments' = swept_moments
             /\ signed_area(e) > 0 /\ Len(e.facecells) = 2 =>
                  swept_moments' =
                    Append(swept_moments, entry(CHOOSE n \in Range(e.facecells) : n # source_id))
             /\ signed_area(e) < 0 =>
                  swept_moments' = Append(swept_moments, entry(source_id))]_vars

\* C17: every 0th moment the intersector hands on is not below
\* minimal_intersection_volume, and an edge that yields a negative value makes
\* the remap abort.
C17_NonNegativeWeights ==
  /\ \A p \in 1 .. Len(swept_moments) :
       swept_moments[p].weights[1] >= minimal_intersection_volume
  /\ (\E i \in 1 .. sweptI : signed_area(sweptEdges[i]) < minimal_intersection_volume)
       => sweptPc = "aborted"

\* C18: a driver call with inconsistent arguments (here: interpolate of a
\* variable that is not in the remap list) ends in a fatal error; the call does
\* not return as if it had succeeded.
C18_ContractViolationFatal ==
  drvErr = "Cannot remap source variable" => drvStatus = "aborted"


\* C19: across a complete remap (distribute, search, intersect, interpolate) no step of
\* Driver::run changes the caller's source mesh, source state or target mesh; of the
\* caller's objects only the target state is written.
C19_OnlyTargetStateModified ==
  [][/\ source_mesh_' = source_mesh_
     /\ source_state_' = source_state_
     /\ target_mesh_' = target_mesh_]_vars

\* a complete distributed remap: the flat copy differs from the caller's mesh and the
\* target state has been written
C19_Witness ==
  /\ runPc = "done"
  /\ distributed
  /\ source_mesh_flat # source_mesh_
  /\ \E t \in TargetCells : target_field[t] # 0

\* C20: within the interpolate phase every work item writes the entry of its own target
\* cell and no other entry, each entry is written once, and so the target field at the
\* end of the phase is the same for every order of the work items: entry t is the
\* value Remap_1stOrder computes from the sources and weights of cell t.
C20_DisjointWrites ==
  /\ [](runPc = "done" =>
         target_field = [t \in TargetCells |->
                           Remap_1stOrder(SourceVals, source_cells_and_weights[t])])
  /\ [][runPc = "interpolate" =>
          \E t \in TargetCells \ interpolated :
            /\ interpolated' = interpolated \cup {t}
            /\ \A u \in TargetCells \ {t} : target_field'[u] = target_field[u]]_vars

\* the phase is over, several work items have run and have written different values
C20_Witness ==
  /\ runPc = "done"
  /\ Cardinality(interpolated) >= 2
  /\ target_field[1] # target_field[2]


C30_RejectedCallWritesNothing ==
  [][drvErr' # drvErr => target_state_' = target_state_]_vars

\* the call was rejected after another variable had been remapped
C30_Witness ==
  /\ drvErr = "Cannot remap source variable"
  /\ drvStatus = "ok"
  /\ \E v \in StateVars : target_state_[v] # 0


\* C28: no operation of the distributor (size exchange, broadcast, send, receive) that
\* a rank has carried out names a process-global communicator.
C28_NoGlobalCommunicator ==
  \A r \in Ranks :
    \A i \in 1 .. Len(Program(multimat)) :
      i < pc[r].step => CommunicatorOf(Program(multimat)[i]) # "MPI_COMM_WORLD"

\* C29: under every interleaving of the ranks, what a receive posted for peer i in a
\* payload round got is the message peer i sent in that round of that category, with
\* the declared count; no receive consumes a message of another round or category.
C29_SameRoundData ==
  \A r \in Ranks :
    /\ \A x \in received[r] : x[3] = x[2]
    /\ \A i \in 1 .. Len(posted[r]) :
         posted[r][i].matched =>
           /\ posted[r][i].got = posted[r][i].want
           /\ posted[r][i].want[3] = sendCount(posted[r][i].src, posted[r][i].want[2], r)

\* every rank is through, and a rank has received from one peer in several rounds
C29_Witness ==
  /\ \A r \in Ranks : pc[r].phase = "end"
  /\ \E r \in Ranks : \E x, y \in received[r] :
       x[1] = y[1] /\ x[2][1] # y[2][1] /\ x[2][2] = "owned" /\ y[2][2] = "ghost"


\* C27: in a Flat_State_Wrapper every stored vector has the size recorded for its
\* entity kind, and that size does not change once recorded until the next clear; an
\* add of another size throws and stores nothing; an add of a (name, entity) pair that
\* is present replaces its data and adds no vector.
C27_OneSizePerKind ==
  /\ [](\A p \in DOMAIN name_map_ :
          /\ p[2] \in DOMAIN entity_size_map_
          /\ name_map_[p] + 1 \in 1 .. Len(state_)
          /\ Len(state_[name_map_[p] + 1]) = entity_size_map_[p[2]])
  /\ [][fswPending # <<>> =>
          LET a == Head(fswPending)
              p == <<a.var_name, a.on_what>>
          IN  /\ \A k \in DOMAIN entity_size_map_ :
                   k \in DOMAIN entity_size_map_' /\ entity_size_map_'[k] = entity_size_map_[k]
              /\ (a.on_what \in DOMAIN entity_size_map_
                    /\ entity_size_map_[a.on_what] # Len(a.data))
                   => /\ fswErr' = "has incompatible size on add"
                      /\ UNCHANGED <<state_, name_map_, entity_map_, entity_size_map_>>
              /\ (p \in DOMAIN name_map_ /\ fswErr' = "none")
                   => /\ Len(state_') = Len(state_)
                      /\ name_map_' = name_map_
                      /\ state_'[name_map_[p] + 1] = a.data]_vars

\* an initialize has stored one vector and met an add of another size for the same kind
C27_Witness ==
  /\ fswErr = "has incompatible size on add"
  /\ Len(state_) = 1
  /\ DOMAIN name_map_ = {<<"d1", "CELL">>}
  /\ state_[1] = <<2, 1>>


ConstantField(K) == \A c \in 1 .. Len(SourceVals) : SourceVals[c] = K

C22_RepairTerminates ==
  /\ [](fixIter <= max_fixup_iter)
  /\ [][fixIter' = fixIter + 1 =>
          ~Converged(fixVals, fixVol, fixSource, conservation_tol)]_vars
  /\ ((fixPc = "loop") ~> (fixPc = "done"))

\* a loop that ended by convergence after some iterations, before max_fixup_iter
C22_Witness ==
  /\ fixPc = "done"
  /\ fixRecord.converged
  /\ fixIter >= 1
  /\ fixIter < max_fixup_iter

\* C23: when the repair has used max_fixup_iter iterations without reaching
\* conservation_tol, interpolate still returns, and the caller is handed the
\* non-convergence flag, the final residual and the iteration count.
C23_NonConvergenceReported ==
  (fixPc = "done" /\ ~fixRecord.converged) =>
    /\ fixIter = max_fixup_iter
    /\ {"converged", "residual", "iterations"} \subseteq DOMAIN fixReturned

====
